---- MODULE Spec2Model ----
(***************************************************************************)
(* Access gate of the LibreChat fork: the billing proxy route              *)
(* (api/server/forked-code/routes/lago.js, GET /subscription) and the      *)
(* client guard (client/src/forked-code-custom/RouteGuard.tsx) with its    *)
(* denial page (SubscriptionRequiredPage); the pricing cache and the usage *)
(* snapshot of a response (api/server/forked-code/litellm/                 *)
(* modelInfoCache.js: getLiteLLMModelInfoMap, syncResponseUsage); the cost *)
(* badge of a response (client/src/forked-code-custom/ResponseCost.tsx).   *)
(*                                                                         *)
(* Strings whose content the code inspects (emails, user ids, environment  *)
(* lists, paths) are tuples of one-character strings, so that split, trim, *)
(* toLowerCase and startsWith are computed rather than assumed.            *)
(***************************************************************************)
EXTENDS Integers, Sequences, FiniteSets, TLC

VARIABLES
  env,               \* process.env of the API server
  rq,                \* the proxy handler run observed in SpecProxy
  isAuthenticated,   \* useAuthContext().isAuthenticated
  userId,            \* useAuthContext().user?.id
  checkStatus,       \* useState<CheckStatus>
  denialReason,      \* useState<DenialReason>
  checkoutUrl,       \* useState<string | null>
  isRechecking,      \* useState(false)
  checkedUserIdRef,  \* useRef<string | null>
  pathname,          \* window.location.pathname
  isLocalLoading,    \* SubscriptionRequiredPage useState(false)
  recheckTimer,      \* setTimeout started by handleRecheck: ms left, -1 when none
  effectTimer,       \* setTimeout started by the loading effect: ms left, -1 when none
  checks,            \* performSubscriptionCheck calls whose fetch has not settled
  view,              \* what RouteGuard returned at the last render
  identity,          \* history: the user id of the running authenticated session
  settled,           \* history: the check whose fetch settled in the last step
  LITELLM_API_KEY,   \* process.env.LITELLM_API_KEY is set
  args,              \* the arguments syncResponseUsage is called with in this run
  now,               \* Date.now() of the API server, ms
  cache,             \* modelInfoCache: <<>> for null, <<map>> otherwise
  cacheTimestamp,    \* modelInfoCache
  inflightPromise,   \* modelInfoCache: <<>> for null, <<id>> for the promise of fetch id
  fetches,           \* calls of fetchLiteLLMModelInfoMap whose promise chain has not finished
  passes,            \* calls of syncResponseUsage that have not returned
  store,             \* the last saveMessage write that succeeded, <<>> when none
  returned,          \* history: what the syncResponseUsage call of the last step returned
  fetchedAt,         \* history: when the last /model/info request succeeded, -1 when none
  message,           \* ResponseCost: the message prop, <<>> before the first render
  costBreakdown,     \* ResponseCost useState<CostBreakdown | null> (breakdown): <<>> for null
  claudeRates,       \* ResponseCost useState<ComparisonRates>: <<>> for null
  calculationComplete, \* ResponseCost useRef(false)
  calc,              \* the calculateCost run that is mounted and awaits the pricing map
  displayCurrencyPreference, \* ResponseCost useState<SupportedCurrency>('USD')
  usdToNokRate,      \* ResponseCost useState<number | null>: <<>> for null
  costMargin,        \* ResponseCost useState(0), in percent
  usdToNokRateCache, \* currencyAdapter: <<>> for null
  lastFetchTime,     \* currencyAdapter
  lastFetchFailed,   \* currencyAdapter
  usdToNokRatePromise, \* currencyAdapter: <<>> for null, else the request in flight
  rateLog            \* history: the last fetchUsdToNokRate call and the last settled request

vars == <<env, rq, isAuthenticated, userId, checkStatus, denialReason, checkoutUrl,
          isRechecking, checkedUserIdRef, pathname, isLocalLoading, recheckTimer,
          effectTimer, checks, view, identity, settled, LITELLM_API_KEY, args, now,
          cache, cacheTimestamp, inflightPromise, fetches, passes, store, returned,
          fetchedAt, message, costBreakdown, claudeRates, calculationComplete, calc,
          displayCurrencyPreference, usdToNokRate, costMargin, usdToNokRateCache,
          lastFetchTime, lastFetchFailed, usdToNokRatePromise, rateLog>>

rateVars == <<usdToNokRateCache, lastFetchTime, lastFetchFailed, usdToNokRatePromise,
              rateLog>>

usageVars == <<LITELLM_API_KEY, args, now, cache, cacheTimestamp, inflightPromise, fetches,
               passes, store, returned, fetchedAt>>

costVars == <<message, costBreakdown, claudeRates, calculationComplete, calc,
              displayCurrencyPreference, usdToNokRate, costMargin>>

guardVars == <<isAuthenticated, userId, checkStatus, denialReason, checkoutUrl,
               isRechecking, checkedUserIdRef, pathname, isLocalLoading, recheckTimer,
               effectTimer, checks, view, identity, settled>>

\* JavaScript null. A string the code only tests for truthiness is the empty
\* tuple when it is undefined, null or ''; a JSON object is a record holding
\* exactly the fields that are present.
Null == "null"

Has(obj, f) == f \in DOMAIN obj

\* obj.f is truthy, for a field that holds a boolean when present.
Truthy(obj, f) == Has(obj, f) /\ obj[f] = TRUE

(***************************************************************************)
(* String helpers                                                          *)
(***************************************************************************)
LowerChar(c) ==
  CASE c = "A" -> "a"
    [] c = "B" -> "b"
    [] c = "X" -> "x"
    [] OTHER -> c

ToLowerCase(s) == [i \in 1..Len(s) |-> LowerChar(s[i])]

RECURSIVE TrimStart(_)
TrimStart(s) == IF s # <<>> /\ Head(s) = " " THEN TrimStart(Tail(s)) ELSE s

RECURSIVE TrimEnd(_)
TrimEnd(s) ==
  IF s # <<>> /\ s[Len(s)] = " " THEN TrimEnd(SubSeq(s, 1, Len(s) - 1)) ELSE s

Trim(s) == TrimEnd(TrimStart(s))

\* String.prototype.split(','): the pieces between the commas, empty ones kept.
RECURSIVE SplitComma(_, _, _)
SplitComma(s, cur, acc) ==
  IF s = <<>> THEN Append(acc, cur)
  ELSE IF Head(s) = "," THEN SplitComma(Tail(s), <<>>, Append(acc, cur))
  ELSE SplitComma(Tail(s), Append(cur, Head(s)), acc)

Split(s) == SplitComma(s, <<>>, <<>>)

Includes(list, x) == \E i \in 1..Len(list) : list[i] = x

StartsWith(s, p) == Len(p) <= Len(s) /\ SubSeq(s, 1, Len(p)) = p

(***************************************************************************)
(* Billing proxy: GET /subscription                                        *)
(***************************************************************************)
\* axios timeout of lagoRequest and lagoPost, in ms.
LagoTimeout == 5000

\* Time advances in steps of this many ms.
MIN_LOADING_TIME == 1000

\* req.user of the authenticated session.
Users == {"u1", "u2", "u3"}

\* The users that sign in at the guard.
GuardUsers == {"u1", "u3"}

Profile(u) ==
  CASE u = "u1" -> [id |-> <<"1">>, email |-> <<"A", "@", "x">>]
    [] u = "u2" -> [id |-> <<"2">>, email |-> <<"b", "@", "x">>]
    [] u = "u3" -> [id |-> <<"3">>, email |-> <<>>]

\* process.env as the handler reads it.
Envs ==
  { [LAGO_API_KEY |-> TRUE,
     LAGO_WHITELISTED_EMAILS |-> <<" ", "a", "@", "X", " ", ",", "c", "@", "x">>,
     LAGO_WHITELISTED_USERS |-> <<"9", ",", " ", "3">>],
    [LAGO_API_KEY |-> TRUE,
     LAGO_WHITELISTED_EMAILS |-> <<>>,
     LAGO_WHITELISTED_USERS |-> <<>>],
    [LAGO_API_KEY |-> FALSE,
     LAGO_WHITELISTED_EMAILS |-> <<"A", "@", "x">>,
     LAGO_WHITELISTED_USERS |-> <<"3">>] }

whitelistedEmails(e) ==
  IF e.LAGO_WHITELISTED_EMAILS # <<>>
    THEN [i \in 1..Len(Split(e.LAGO_WHITELISTED_EMAILS)) |->
            ToLowerCase(Trim(Split(e.LAGO_WHITELISTED_EMAILS)[i]))]
    ELSE <<>>

whitelistedUsers(e) ==
  IF e.LAGO_WHITELISTED_USERS # <<>>
    THEN [i \in 1..Len(Split(e.LAGO_WHITELISTED_USERS)) |->
            Trim(Split(e.LAGO_WHITELISTED_USERS)[i])]
    ELSE <<>>

\* Variant (an earlier revision of the route): the user-id list is consulted
\* only for a user that has an email.
IsWhitelistedNeedsEmail(u, e) ==
  /\ Profile(u).email # <<>>
  /\ \/ Includes(whitelistedEmails(e), ToLowerCase(Profile(u).email))
     \/ Includes(whitelistedUsers(e), Profile(u).id)

IsWhitelisted(u, e) ==
  \/ /\ Profile(u).email # <<>>
     /\ Includes(whitelistedEmails(e), ToLowerCase(Profile(u).email))
  \/ Includes(whitelistedUsers(e), Profile(u).id)

\* The JSON bodies res.json() sends, with the HTTP status.
NoKeyResponse ==
  [status |-> 500, body |-> [error |-> "Lago API key not configured"]]

WhitelistedResponse ==
  [status |-> 200,
   body |-> [hasSubscription |-> TRUE, whitelisted |-> TRUE, subscription |-> Null]]

NoAccountResponse ==
  [status |-> 200,
   body |-> [hasSubscription |-> FALSE, whitelisted |-> FALSE, subscription |-> Null,
             reason |-> "no_account"]]

DeniedResponse(reason, url) ==
  [status |-> 200,
   body |-> [hasSubscription |-> FALSE, whitelisted |-> FALSE, subscription |-> Null,
             reason |-> reason, checkoutUrl |-> url]]

GrantedResponse(sub) ==
  [status |-> 200,
   body |-> [hasSubscription |-> TRUE, whitelisted |-> FALSE, subscription |-> sub]]

\* Variant (an earlier revision of the route): a provider error grants access.
ErrorResponseFailOpen ==
  [status |-> 200,
   body |-> [hasSubscription |-> TRUE, error |-> TRUE,
             errorMessage |-> "Error connecting to subscription service",
             fallback |-> TRUE]]

ErrorResponse ==
  [status |-> 200,
   body |-> [hasSubscription |-> FALSE, error |-> TRUE,
             errorMessage |-> "Error connecting to subscription service",
             fallback |-> FALSE]]

\* What the billing provider can answer. A reply is [kind |-> "ok", data |-> ...]
\* for a 2xx response; axios rejects for a network error, a non-2xx status and
\* a timeout.
FailKinds == {"neterr", "http", "timeout"}

Ok(data) == [kind |-> "ok", data |-> data]
Fail(kind) == [kind |-> kind]

Customer(email, cfg) ==
  [email |-> email, external_id |-> "ext", billing_configuration |-> cfg]

Stripe == [payment_provider |-> "stripe", provider_customer_id |-> "cus_1"]
StripeNoCustomer == [payment_provider |-> "stripe", provider_customer_id |-> Null]
CustomerNoProvider == [payment_provider |-> Null, provider_customer_id |-> "cus_1"]

EmailA == <<"a", "@", "X">>
EmailB == <<"B", "@", "x">>
EmailC == <<"c", "@", "x">>

CustomerReplies ==
  { Ok([customers |-> <<>>]),
    Ok([meta |-> Null]),
    Ok([customers |-> <<[external_id |-> "ext"]>>]),
    Ok([customers |-> <<Customer(EmailC, Stripe), Customer(EmailA, Stripe)>>]),
    Ok([customers |-> <<Customer(EmailA, StripeNoCustomer)>>]),
    Ok([customers |-> <<Customer(EmailA, CustomerNoProvider)>>]),
    Ok([customers |-> <<[email |-> EmailA, external_id |-> "ext"]>>]),
    Ok([customers |-> <<Customer(EmailB, Stripe)>>]),
    Ok([customers |-> <<Customer(EmailB, StripeNoCustomer)>>]) }
  \cup {Fail(k) : k \in FailKinds}

SubscriptionReplies ==
  { Ok([subscriptions |-> <<>>]),
    Ok([meta |-> Null]),
    Ok([subscriptions |-> <<"sub_1">>]),
    Ok([subscriptions |-> <<"sub_1", "sub_2">>]) }
  \cup {Fail(k) : k \in FailKinds}

CheckoutReplies ==
  { Ok([customer |-> [checkout_url |-> "https://checkout"]]),
    Ok([customer |-> [checkout_url |-> Null]]),
    Ok([meta |-> Null]) }
  \cup {Fail(k) : k \in FailKinds}

\* customers.find((c) => c.email && c.email.toLowerCase() === email.toLowerCase())
RECURSIVE Find(_, _)
Find(customers, email) ==
  IF customers = <<>> THEN <<>>
  ELSE IF /\ Has(Head(customers), "email")
          /\ Head(customers).email # <<>>
          /\ ToLowerCase(Head(customers).email) = ToLowerCase(email)
         THEN <<Head(customers)>>
         ELSE Find(Tail(customers), email)

\* A string-valued field that is present and not null.
Present(obj, f) == Has(obj, f) /\ obj[f] # Null

billingConfig(customer) ==
  IF Has(customer, "billing_configuration")
    THEN customer.billing_configuration
    ELSE [none |-> Null]

(***************************************************************************)
(* The handler as a resumable run: pc is the await it is suspended at,     *)
(* calls the provider requests issued so far, replies what they answered   *)
(* (history, for the properties).                                          *)
(***************************************************************************)
Respond(r, resp) == [r EXCEPT !.pc = "done", !.resp = <<resp>>]

Await(r, pc, call) == [r EXCEPT !.pc = pc, !.calls = Append(@, call), !.waited = 0]

\* lines 53-95: up to the first await.
HandlerStart(u, e) ==
  LET r == [pc |-> "start", user |-> u, reason |-> Null, calls |-> <<>>,
            replies |-> <<>>, waited |-> 0, resp |-> <<>>]
  IN IF ~e.LAGO_API_KEY THEN Respond(r, NoKeyResponse)
     ELSE IF IsWhitelisted(u, e) THEN Respond(r, WhitelistedResponse)
     ELSE IF Profile(u).email = <<>> THEN Respond(r, NoAccountResponse)
     ELSE Await(r, "customers", "GET /customers")

\* Variant: the payment-method step is skipped.
AfterCustomersNoPaymentStep(r, data) ==
  LET customers == IF Has(data, "customers") THEN data.customers ELSE <<>>
      found == Find(customers, Profile(r.user).email)
  IN IF found = <<>> THEN Respond(r, NoAccountResponse)
     ELSE Await(r, "subscriptions", "GET /subscriptions")

\* lines 97-131: after the customer lookup resolved.
AfterCustomers(r, data) ==
  LET customers == IF Has(data, "customers") THEN data.customers ELSE <<>>
      found == Find(customers, Profile(r.user).email)
  IN IF found = <<>> THEN Respond(r, NoAccountResponse)
     ELSE LET cfg == billingConfig(found[1])
          IN IF ~Present(cfg, "payment_provider") \/ ~Present(cfg, "provider_customer_id")
               THEN IF Present(cfg, "payment_provider")
                      THEN Await([r EXCEPT !.reason = "no_payment_method"],
                                 "checkout", "POST /checkout_url")
                      ELSE Respond(r, DeniedResponse("no_payment_method", Null))
               ELSE Await(r, "subscriptions", "GET /subscriptions")

\* lines 133-145: after the subscription query resolved.
AfterSubscriptions(r, data) ==
  LET subscriptions == IF Has(data, "subscriptions") THEN data.subscriptions ELSE <<>>
  IN IF Len(subscriptions) > 0 THEN Respond(r, GrantedResponse(subscriptions[1]))
     ELSE Await([r EXCEPT !.reason = "no_active_subscription"],
                "checkout", "POST /checkout_url")

\* getCheckoutUrl: the link, or null when the request fails or carries none.
getCheckoutUrl(reply) ==
  IF /\ reply.kind = "ok"
     /\ Has(reply.data, "customer")
     /\ Present(reply.data.customer, "checkout_url")
    THEN reply.data.customer.checkout_url
    ELSE Null

\* Variant: a failed subscription query grants access by default (fail open).
HandlerResumeFailOpen(r, reply) ==
  LET r1 == [r EXCEPT !.replies = Append(@, reply)]
  IN CASE r.pc = "customers" ->
            IF reply.kind = "ok" THEN AfterCustomers(r1, reply.data)
            ELSE Respond(r1, ErrorResponse)
       [] r.pc = "subscriptions" ->
            IF reply.kind = "ok" THEN AfterSubscriptions(r1, reply.data)
            ELSE Respond(r1, [status |-> 200,
                              body |-> [hasSubscription |-> TRUE, error |-> TRUE,
                                        fallback |-> TRUE]])
       [] r.pc = "checkout" ->
            Respond(r1, DeniedResponse(r.reason, getCheckoutUrl(reply)))
       [] OTHER -> r

\* Variant: getCheckoutUrl without its try/catch; a failed checkout request
\* lands in the catch block of the handler.
HandlerResumeCheckoutThrows(r, reply) ==
  LET r1 == [r EXCEPT !.replies = Append(@, reply)]
  IN CASE r.pc = "customers" ->
            IF reply.kind = "ok" THEN AfterCustomers(r1, reply.data)
            ELSE Respond(r1, ErrorResponse)
       [] r.pc = "subscriptions" ->
            IF reply.kind = "ok" THEN AfterSubscriptions(r1, reply.data)
            ELSE Respond(r1, ErrorResponse)
       [] r.pc = "checkout" ->
            IF reply.kind = "ok"
              THEN Respond(r1, DeniedResponse(r.reason, getCheckoutUrl(reply)))
              ELSE Respond(r1, ErrorResponse)
       [] OTHER -> r

\* The handler resumed with the answer to the request it awaits; a rejected
\* lagoRequest lands in the catch block (lines 154-164).
HandlerResume(r, reply) ==
  LET r1 == [r EXCEPT !.replies = Append(@, reply)]
  IN CASE r.pc = "customers" ->
            IF reply.kind = "ok" THEN AfterCustomers(r1, reply.data)
            ELSE Respond(r1, ErrorResponse)
       [] r.pc = "subscriptions" ->
            IF reply.kind = "ok" THEN AfterSubscriptions(r1, reply.data)
            ELSE Respond(r1, ErrorResponse)
       [] r.pc = "checkout" ->
            Respond(r1, DeniedResponse(r.reason, getCheckoutUrl(reply)))
       [] OTHER -> r

RepliesFor(pc) ==
  CASE pc = "customers" -> CustomerReplies
    [] pc = "subscriptions" -> SubscriptionReplies
    [] pc = "checkout" -> CheckoutReplies
    [] OTHER -> {}

(***************************************************************************)
(* SpecProxy: one handler run at a time against the billing provider       *)
(***************************************************************************)
IdleRun ==
  [pc |-> "idle", user |-> Null, reason |-> Null, calls |-> <<>>, replies |-> <<>>,
   waited |-> 0, resp |-> <<>>]

Awaiting(r) == r.pc \in {"customers", "subscriptions", "checkout"}

ProxyRequest(u) ==
  /\ rq.pc = "idle"
  /\ rq' = HandlerStart(u, env)
  /\ UNCHANGED <<env, usageVars, costVars, rateVars, guardVars>>

\* The provider answers, fails, or the 5 s axios timeout expires.
ProviderReply(reply) ==
  /\ Awaiting(rq)
  /\ reply \in RepliesFor(rq.pc)
  /\ IF reply.kind = "timeout" THEN rq.waited = LagoTimeout ELSE rq.waited < LagoTimeout
  /\ rq' = HandlerResume(rq, reply)
  /\ UNCHANGED <<env, usageVars, costVars, rateVars, guardVars>>

ProxyTick ==
  /\ Awaiting(rq)
  /\ rq.waited < LagoTimeout
  /\ rq' = [rq EXCEPT !.waited = @ + MIN_LOADING_TIME]
  /\ UNCHANGED <<env, usageVars, costVars, rateVars, guardVars>>

\* The response has been sent; the route serves the next request.
ProxyDone ==
  /\ rq.pc = "done"
  /\ rq' = IdleRun
  /\ UNCHANGED <<env, usageVars, costVars, rateVars, guardVars>>

(***************************************************************************)
(* The handler run to completion, for a check of the guard that has been   *)
(* in flight for `age` ms: a timeout needs the request to be 5 s old.      *)
(***************************************************************************)
AllowedReplies(pc, age) ==
  {reply \in RepliesFor(pc) : reply.kind = "timeout" => age >= LagoTimeout}

Advance(runs, age) ==
  UNION { IF r.pc = "done" THEN {r}
          ELSE {HandlerResume(r, reply) : reply \in AllowedReplies(r.pc, age)} : r \in runs }

HandlerRuns(u, e, age) == Advance(Advance(Advance({HandlerStart(u, e)}, age), age), age)

\* The failure of the customer lookup or of the subscription query in a run.
Failure(r) ==
  LET failed == {i \in 1..Len(r.replies) :
                   r.calls[i] # "POST /checkout_url" /\ r.replies[i].kind # "ok"}
  IN IF failed # {} THEN r.replies[CHOOSE i \in failed : TRUE].kind ELSE "none"

\* What a check of the guard can get from the proxy: the response, and the
\* provider failure behind it.
Served(u, e, age) ==
  {[resp |-> r.resp[1], failure |-> Failure(r)] : r \in HandlerRuns(u, e, age)}

ServedTable ==
  [u \in Users, e \in Envs, old \in BOOLEAN |->
     Served(u, e, IF old THEN LagoTimeout ELSE 0)]

(***************************************************************************)
(* RouteGuard                                                              *)
(***************************************************************************)
\* At most this many checks are in flight at once.
MaxInFlight == 2

publicPaths ==
  << <<"/", "l", "o", "g", "i", "n">>,
     <<"/", "r", "e", "g", "i", "s", "t", "e", "r">>,
     <<"/", "l", "o", "g", "i", "n", "/", "2", "f", "a">>,
     <<"/", "f", "o", "r", "g", "o", "t", "-", "p", "a", "s", "s", "w", "o", "r", "d">>,
     <<"/", "r", "e", "s", "e", "t", "-", "p", "a", "s", "s", "w", "o", "r", "d">>,
     <<"/", "v", "e", "r", "i", "f", "y">> >>

\* window.location.pathname values visited.
Paths ==
  { <<"/", "c", "/", "n", "e", "w">>,
    <<"/", "l", "o", "g", "i", "n", "/", "2", "f", "a">>,
    <<"/", "v", "e", "r", "i", "f", "y", "?", "t">> }

\* Variant: the path is compared for equality instead of startsWith.
isPublicPathExact(p) == \E i \in 1..Len(publicPaths) : p = publicPaths[i]

isPublicPath(p) == \E i \in 1..Len(publicPaths) : StartsWith(p, publicPaths[i])

\* Variant (an earlier revision of the guard): nothing protected is shown
\* before the check has granted access.
RenderBlocking(auth, uid, p, status) ==
  IF isPublicPath(p) \/ ~auth \/ uid = Null THEN "children"
  ELSE IF status = "pending" THEN "nothing"
  ELSE IF status = "access-granted" THEN "children"
  ELSE IF status = "error" THEN "ErrorView"
  ELSE "SubscriptionView"

\* The element RouteGuard returns (lines 90-111); the denial page shows
\* ErrorView when its error prop is set and SubscriptionView otherwise.
Render(auth, uid, p, status) ==
  IF isPublicPath(p) \/ ~auth \/ uid = Null THEN "children"
  ELSE IF status = "pending" \/ status = "access-granted" THEN "children"
  ELSE IF status = "error" THEN "ErrorView"
  ELSE "SubscriptionView"

DenialPage == {"ErrorView", "SubscriptionView"}

\* fetchSubscriptionStatus(signal): the promise performSubscriptionCheck awaits.
\* It resolves with the JSON body of a 2xx response; for any failure (non-2xx,
\* network, abort) it resolves with the error object or rejects.
FetchErrorObject ==
  [hasSubscription |-> FALSE, error |-> TRUE, errorMessage |-> "Unknown error",
   fallback |-> FALSE]

FetchModes == {"response", "errobj", "reject"}

fetchSubscriptionStatus(mode, resp) ==
  CASE mode = "response" /\ resp.status = 200 -> [settle |-> "resolve", data |-> resp.body]
    [] mode = "reject" -> [settle |-> "reject"]
    [] OTHER -> [settle |-> "resolve", data |-> FetchErrorObject]

\* Variant: the catch block sets no error status.
AfterFetchSilentCatch(outcome, aborted, cur) ==
  LET data == outcome.data
      accessGranted ==
        Truthy(data, "hasSubscription") \/ Truthy(data, "whitelisted")
          \/ Truthy(data, "fallback")
      body ==
        IF outcome.settle = "resolve"
          THEN IF Truthy(data, "error") /\ ~Truthy(data, "fallback")
                 THEN [cur EXCEPT !.checkStatus = "error", !.denialReason = Null,
                                  !.checkoutUrl = Null]
                 ELSE [cur EXCEPT
                         !.checkStatus =
                           IF accessGranted THEN "access-granted"
                           ELSE "subscription-required",
                         !.denialReason =
                           IF accessGranted THEN Null
                           ELSE IF Present(data, "reason") THEN data.reason
                           ELSE "no_active_subscription",
                         !.checkoutUrl =
                           IF Present(data, "checkoutUrl") THEN data.checkoutUrl
                           ELSE Null]
          ELSE cur
  IN IF ~aborted THEN [body EXCEPT !.isRechecking = FALSE] ELSE body

\* performSubscriptionCheck after the await (lines 40-62): the state it leaves,
\* from the state cur it finds.
AfterFetch(outcome, aborted, cur) ==
  LET data == outcome.data
      accessGranted ==
        Truthy(data, "hasSubscription") \/ Truthy(data, "whitelisted")
          \/ Truthy(data, "fallback")
      body ==
        IF outcome.settle = "resolve"
          THEN IF Truthy(data, "error") /\ ~Truthy(data, "fallback")
                 THEN [cur EXCEPT !.checkStatus = "error", !.denialReason = Null,
                                  !.checkoutUrl = Null]
                 ELSE [cur EXCEPT
                         !.checkStatus =
                           IF accessGranted THEN "access-granted"
                           ELSE "subscription-required",
                         !.denialReason =
                           IF accessGranted THEN Null
                           ELSE IF Present(data, "reason") THEN data.reason
                           ELSE "no_active_subscription",
                         !.checkoutUrl =
                           IF Present(data, "checkoutUrl") THEN data.checkoutUrl
                           ELSE Null]
          ELSE IF aborted THEN cur
          ELSE [cur EXCEPT !.checkStatus = "error", !.denialReason = Null,
                           !.checkoutUrl = Null]
  IN IF ~aborted THEN [body EXCEPT !.isRechecking = FALSE] ELSE body

\* A call of performSubscriptionCheck: the newest check is the latest one.
Issue(cs, kind, u) ==
  Append([i \in 1..Len(cs) |-> [cs[i] EXCEPT !.latest = FALSE]],
         [kind |-> kind, user |-> u, aborted |-> FALSE, age |-> 0, latest |-> TRUE])

\* controller.abort() in the cleanup of the identity effect (line 87).
Cleanup(cs) ==
  [i \in 1..Len(cs) |->
     IF cs[i].kind = "identity" THEN [cs[i] EXCEPT !.aborted = TRUE] ELSE cs[i]]

\* Variant: the ref is not reset on logout.
ResetRefNever(ref, authBefore, authAfter) == ref

\* The effect of lines 71-75, run when isAuthenticated changed.
ResetRef(ref, authBefore, authAfter) ==
  IF authBefore # authAfter /\ ~authAfter THEN Null ELSE ref

\* The guard of the identity effect (line 78).
NeedsCheck(auth, uid, ref) == auth /\ uid # Null /\ ref # uid

Remove(cs, i) == SubSeq(cs, 1, i - 1) \o SubSeq(cs, i + 1, Len(cs))

\* SubscriptionRequiredPage is mounted while RouteGuard returns it. A new
\* mount starts with isLocalLoading false and no timer; while it stays
\* mounted the loading effect (lines 156-163) re-runs when isLoading or
\* isLocalLoading changed. `local` and `timer` are isLocalLoading and the
\* handleRecheck timer as the step's handler left them.
Page(local, timer) ==
  /\ view' = Render(isAuthenticated', userId', pathname', checkStatus')
  /\ IF view \in DenialPage /\ view' \in DenialPage
       THEN /\ isLocalLoading' = local
            /\ recheckTimer' = timer
            /\ effectTimer' =
                 IF <<isRechecking', local>> # <<isRechecking, isLocalLoading>>
                   THEN IF ~isRechecking' /\ local THEN MIN_LOADING_TIME ELSE -1
                   ELSE effectTimer
       ELSE /\ isLocalLoading' = FALSE
            /\ recheckTimer' = -1
            /\ effectTimer' = -1

\* useAuthContext() yields a new isAuthenticated / user?.id; the effects of
\* lines 71-88 run: cleanup of the previous identity effect, the ref reset,
\* then the identity effect.
AuthChange(auth, uid) ==
  LET ref == ResetRef(checkedUserIdRef, isAuthenticated, auth)
      cs == Cleanup(checks)
  IN /\ <<auth, uid>> # <<isAuthenticated, userId>>
     /\ isAuthenticated' = auth
     /\ userId' = uid
     /\ IF NeedsCheck(auth, uid, ref)
          THEN /\ Len(checks) < MaxInFlight
               /\ checkedUserIdRef' = uid
               /\ checkStatus' = "pending"
               /\ checks' = Issue(cs, "identity", uid)
          ELSE /\ checkedUserIdRef' = ref
               /\ checks' = cs
               /\ UNCHANGED checkStatus
     /\ identity' = IF ~auth THEN Null ELSE IF uid # Null THEN uid ELSE identity
     /\ settled' = <<>>
     /\ UNCHANGED <<env, usageVars, costVars, rateVars, rq, denialReason, checkoutUrl, isRechecking, pathname>>
     /\ Page(isLocalLoading, recheckTimer)

Login(u) == ~isAuthenticated /\ AuthChange(TRUE, u)

\* isAuthenticated is set before the user object is there.
LoginPending == ~isAuthenticated /\ AuthChange(TRUE, Null)

Logout == isAuthenticated /\ AuthChange(FALSE, Null)

SwitchUser(u) == isAuthenticated /\ userId # Null /\ AuthChange(TRUE, u)

UserUnavailable == isAuthenticated /\ userId # Null /\ AuthChange(TRUE, Null)

UserLoaded(u) == isAuthenticated /\ userId = Null /\ AuthChange(TRUE, u)

\* A re-render on another path: no dependency of an effect changed.
Navigate(p) ==
  /\ p # pathname
  /\ pathname' = p
  /\ settled' = <<>>
  /\ UNCHANGED <<env, usageVars, costVars, rateVars, rq, isAuthenticated, userId, checkStatus, denialReason,
                 checkoutUrl, isRechecking, checkedUserIdRef, checks, identity>>
  /\ Page(isLocalLoading, recheckTimer)

\* The recheck button of the denial page (disabled while combinedLoading):
\* handleRecheck, then handleRecheckSubscription (lines 65-68).
ClickRecheck ==
  /\ view \in DenialPage
  /\ ~(isRechecking \/ isLocalLoading)
  /\ Len(checks) < MaxInFlight
  /\ isRechecking' = TRUE
  /\ checks' = Issue(checks, "recheck", userId)
  /\ settled' = <<>>
  /\ UNCHANGED <<env, usageVars, costVars, rateVars, rq, isAuthenticated, userId, checkStatus, denialReason,
                 checkoutUrl, checkedUserIdRef, pathname, identity>>
  /\ Page(TRUE, MIN_LOADING_TIME)

\* The fetch of check i settles and performSubscriptionCheck finishes.
\* served is what the proxy answered, when the fetch delivers a response.
SettleWith(i, mode, served) ==
  LET resp == IF mode = "response" THEN served.resp ELSE [status |-> 0]
      after == AfterFetch(fetchSubscriptionStatus(mode, resp), checks[i].aborted,
                          [checkStatus |-> checkStatus, denialReason |-> denialReason,
                           checkoutUrl |-> checkoutUrl, isRechecking |-> isRechecking])
  IN /\ checkStatus' = after.checkStatus
     /\ denialReason' = after.denialReason
     /\ checkoutUrl' = after.checkoutUrl
     /\ isRechecking' = after.isRechecking
     /\ settled' = <<[kind |-> checks[i].kind, user |-> checks[i].user,
                      aborted |-> checks[i].aborted, latest |-> checks[i].latest,
                      mode |-> mode, resp |-> resp,
                      failure |-> IF mode = "response" THEN served.failure ELSE "none"]>>
     /\ checks' = Remove(checks, i)
     /\ UNCHANGED <<env, usageVars, costVars, rateVars, rq, isAuthenticated, userId, checkedUserIdRef, pathname, identity>>
     /\ Page(isLocalLoading, recheckTimer)

Settle(i, mode) ==
  /\ i \in 1..Len(checks)
  /\ IF mode = "response"
       THEN \E served \in ServedTable[checks[i].user, env, checks[i].age >= LagoTimeout] :
              SettleWith(i, mode, served)
       ELSE SettleWith(i, mode, [resp |-> [status |-> 0], failure |-> "none"])

\* The timer of handleRecheck (lines 149-151) fires.
RecheckTimerFires ==
  /\ recheckTimer = 0
  /\ settled' = <<>>
  /\ UNCHANGED <<env, usageVars, costVars, rateVars, rq, isAuthenticated, userId, checkStatus, denialReason, checkoutUrl,
                 isRechecking, checkedUserIdRef, pathname, checks, identity>>
  /\ Page(FALSE, -1)

\* The timer of the loading effect (lines 158-160) fires.
EffectTimerFires ==
  /\ effectTimer = 0
  /\ settled' = <<>>
  /\ UNCHANGED <<env, usageVars, costVars, rateVars, rq, isAuthenticated, userId, checkStatus, denialReason, checkoutUrl,
                 isRechecking, checkedUserIdRef, pathname, checks, identity>>
  /\ Page(FALSE, recheckTimer)

Min(a, b) == IF a < b THEN a ELSE b

\* MIN_LOADING_TIME ms pass; a timer that is due fires first.
Tick ==
  /\ recheckTimer # 0 /\ effectTimer # 0
  /\ \/ recheckTimer > 0 \/ effectTimer > 0
     \/ \E i \in 1..Len(checks) : checks[i].age < LagoTimeout
  /\ checks' = [i \in 1..Len(checks) |->
                  [checks[i] EXCEPT !.age = Min(@ + MIN_LOADING_TIME, LagoTimeout)]]
  /\ recheckTimer' = IF recheckTimer > 0 THEN recheckTimer - MIN_LOADING_TIME ELSE -1
  /\ effectTimer' = IF effectTimer > 0 THEN effectTimer - MIN_LOADING_TIME ELSE -1
  /\ settled' = <<>>
  /\ UNCHANGED <<env, usageVars, costVars, rateVars, rq, isAuthenticated, userId, checkStatus, denialReason, checkoutUrl,
                 isRechecking, checkedUserIdRef, pathname, isLocalLoading, view, identity>>

(***************************************************************************)
(* Specifications                                                          *)
(***************************************************************************)
GuardInit ==
  /\ isAuthenticated = FALSE
  /\ userId = Null
  /\ checkStatus = "pending"
  /\ denialReason = Null
  /\ checkoutUrl = Null
  /\ isRechecking = FALSE
  /\ checkedUserIdRef = Null
  /\ pathname \in Paths
  /\ isLocalLoading = FALSE
  /\ recheckTimer = -1
  /\ effectTimer = -1
  /\ checks = <<>>
  /\ view = "children"
  /\ identity = Null
  /\ settled = <<>>

\* modelInfoCache.js lines 6-8 at module load; no syncResponseUsage call runs.
UsageInit ==
  /\ now = 0
  /\ cache = <<>>
  /\ cacheTimestamp = 0
  /\ inflightPromise = <<>>
  /\ fetches = <<>>
  /\ passes = <<>>
  /\ store = <<>>
  /\ returned = <<>>
  /\ fetchedAt = -1

\* currencyAdapter when the module is loaded (KeyboardShortcuts.tsx:416-419).
RateInit ==
  /\ usdToNokRateCache = <<>>
  /\ lastFetchTime = 0
  /\ lastFetchFailed = FALSE
  /\ usdToNokRatePromise = <<>>
  /\ rateLog = [call |-> <<>>, settled |-> <<>>, issuedSince |-> FALSE, requests |-> 0]

\* ResponseCost before its first render (part_005:328-336).
CostInit ==
  /\ message = <<>>
  /\ costBreakdown = <<>>
  /\ claudeRates = <<>>
  /\ calculationComplete = FALSE
  /\ calc = <<>>
  /\ displayCurrencyPreference = "USD"
  /\ usdToNokRate = <<>>
  /\ costMargin = 0
  /\ RateInit

Init ==
  /\ env \in Envs
  /\ rq = IdleRun
  /\ GuardInit
  /\ LITELLM_API_KEY = TRUE
  /\ args = <<>>
  /\ UsageInit
  /\ CostInit

\* The guard against the proxy.
Next ==
  \/ \E u \in GuardUsers : Login(u)
  \/ LoginPending
  \/ Logout
  \/ \E u \in GuardUsers : SwitchUser(u)
  \/ UserUnavailable
  \/ \E u \in GuardUsers : UserLoaded(u)
  \/ \E p \in Paths : Navigate(p)
  \/ ClickRecheck
  \/ \E i \in 1..MaxInFlight, mode \in FetchModes : Settle(i, mode)
  \/ RecheckTimerFires
  \/ EffectTimerFires
  \/ Tick

Spec == Init /\ [][Next]_vars

\* The proxy alone, one request after the other.
ProxyNext ==
  \/ \E u \in Users : ProxyRequest(u)
  \/ \E reply \in CustomerReplies \cup SubscriptionReplies \cup CheckoutReplies :
       ProviderReply(reply)
  \/ ProxyTick
  \/ ProxyDone

SpecProxy == Init /\ [][ProxyNext]_vars

(***************************************************************************)
(* Pricing cache: modelInfoCache.js                                        *)
(*                                                                         *)
(* A model name is a string; a pricing map is a function from the model    *)
(* names it holds to their model_info. A JavaScript value read from JSON   *)
(* is a record tagged with its type; a field that is undefined is absent.  *)
(* Money is counted in units of 1e-9 USD, so that the products and sums of *)
(* the cost computation are exact.                                         *)
(***************************************************************************)
CACHE_DURATION_MS == 60 * 60 * 1000

\* axios timeout of the /model/info request, in ms.
FetchTimeout == 5000

\* Server time advances by this much while nothing is being fetched.
CacheTick == CACHE_DURATION_MS \div 2

\* The server clock is followed for this many CacheTick.
MaxTicks == 3

Num(n) == [t |-> "number", v |-> n]
JsNull == [t |-> "null"]
Str(s) == [t |-> "string", v |-> s]
NaN == [t |-> "NaN"]

Digits == <<"0", "1", "2", "3", "4", "5", "6", "7", "8", "9">>

IsDigit(c) == \E d \in 1..10 : Digits[d] = c

DigitValue(c) == (CHOOSE d \in 1..10 : Digits[d] = c) - 1

RECURSIVE ParseDigits(_, _)
ParseDigits(s, acc) ==
  IF s = <<>> THEN acc ELSE ParseDigits(Tail(s), 10 * acc + DigitValue(Head(s)))

\* Number(value) of a value that is <<>> when undefined: undefined gives NaN,
\* null gives 0, a string its numeric value ('' and blanks give 0) or NaN.
NumberOf(x) ==
  IF x = <<>> THEN NaN
  ELSE CASE x[1].t = "null" -> Num(0)
         [] x[1].t = "number" -> x[1]
         [] x[1].t = "string" ->
              LET str == Trim(x[1].v)
              IN IF \A i \in 1..Len(str) : IsDigit(str[i])
                   THEN Num(ParseDigits(str, 0))
                   ELSE NaN
         [] OTHER -> NaN

Field(obj, f) == IF Has(obj, f) THEN <<obj[f]>> ELSE <<>>

Number(obj, f) == NumberOf(Field(obj, f))

\* response.data of GET /model/info.
Entry(name, info, litellmModel) ==
  [model_name |-> name, model_info |-> info, litellm_params |-> [model |-> litellmModel]]

Priced == [input_cost_per_token |-> Num(5000), output_cost_per_token |-> Num(15000)]

PricedReasoning ==
  [input_cost_per_token |-> Num(3000), output_cost_per_token |-> Str(<<"1", "2", "0", "0", "0">>),
   output_cost_per_reasoning_token |-> Num(60000)]

Repriced == [input_cost_per_token |-> Num(6000), output_cost_per_token |-> Num(18000)]

NullPrices ==
  [input_cost_per_token |-> JsNull, output_cost_per_token |-> JsNull,
   output_cost_per_reasoning_token |-> JsNull]

NullReasoning ==
  [input_cost_per_token |-> Num(5000), output_cost_per_token |-> Num(15000),
   output_cost_per_reasoning_token |-> JsNull]

ZeroReasoning ==
  [input_cost_per_token |-> Num(5000), output_cost_per_token |-> Num(15000),
   output_cost_per_reasoning_token |-> Num(0)]

NoPrices == [mode |-> Str(<<"c", "h", "a", "t">>)]

NegativePrices ==
  [input_cost_per_token |-> Num(-3000), output_cost_per_token |-> Str(<<"f", "r", "e", "e">>),
   output_cost_per_reasoning_token |-> NaN]

Payloads ==
  { [data |-> << Entry("gpt", Priced, "openai/gpt"), Entry("o1", PricedReasoning, ""),
                 Entry("local", NullPrices, ""), Entry("o3", NullReasoning, ""),
                 Entry("embed", NoPrices, ""), Entry("refund", NegativePrices, ""),
                 Entry("o4", ZeroReasoning, ""),
                 [model_name |-> "bare", litellm_params |-> [model |-> "x/bare"]] >>],
    [data |-> << Entry("gpt", Repriced, "azure/gpt"), Entry("azure/gpt", Priced, "") >>],
    [detail |-> "no models"] }

RECURSIVE MapOf(_, _)
MapOf(models, acc) ==
  IF models = <<>> THEN acc
  ELSE LET modelData == Head(models)
           named ==
             IF Has(modelData, "model_name") /\ modelData.model_name # ""
                  /\ Has(modelData, "model_info")
               THEN (modelData.model_name :> modelData.model_info) @@ acc
               ELSE acc
           both ==
             IF Has(modelData, "litellm_params") /\ modelData.litellm_params.model # ""
                  /\ Has(modelData, "model_info")
               THEN (modelData.litellm_params.model :> modelData.model_info) @@ named
               ELSE named
       IN MapOf(Tail(models), both)

\* An object without properties.
EmptyMap == <<>>

toModelInfoMap(payload) ==
  MapOf(IF Has(payload, "data") THEN payload.data ELSE <<>>, EmptyMap)

\* A promise id no running fetch and no waiting pass holds.
FreshId ==
  CHOOSE id \in 1..(Len(fetches) + Len(passes) + 1) :
    /\ \A i \in 1..Len(fetches) : fetches[i].id # id
    /\ \A i \in 1..Len(passes) : passes[i].awaits # id

\* fetchLiteLLMModelInfoMap up to its await: without an API key the promise
\* is resolved with {} and no request is made.
fetchLiteLLMModelInfoMap(id) ==
  IF ~LITELLM_API_KEY
    THEN [id |-> id, pc |-> "nokey", age |-> 0, result |-> <<>>]
    ELSE [id |-> id, pc |-> "request", age |-> 0, result |-> <<>>]

\* Variant: a fetch is started whenever the cache is not fresh.
getLiteLLMModelInfoMapNoDedup ==
  IF cache # <<>> /\ now - cacheTimestamp < CACHE_DURATION_MS
    THEN [value |-> cache, awaits |-> 0, inflightPromise |-> inflightPromise,
          fetches |-> fetches]
    ELSE [value |-> <<>>, awaits |-> FreshId, inflightPromise |-> <<FreshId>>,
          fetches |-> Append(fetches, fetchLiteLLMModelInfoMap(FreshId))]

\* Variant: the entry stays fresh through the instant it expires.
getLiteLLMModelInfoMapLate ==
  IF cache # <<>> /\ now - cacheTimestamp <= CACHE_DURATION_MS
    THEN [value |-> cache, awaits |-> 0, inflightPromise |-> inflightPromise,
          fetches |-> fetches]
  ELSE IF inflightPromise # <<>>
    THEN [value |-> <<>>, awaits |-> inflightPromise[1],
          inflightPromise |-> inflightPromise, fetches |-> fetches]
    ELSE [value |-> <<>>, awaits |-> FreshId, inflightPromise |-> <<FreshId>>,
          fetches |-> Append(fetches, fetchLiteLLMModelInfoMap(FreshId))]

\* getLiteLLMModelInfoMap (lines 48-76): what the caller gets (the cached map,
\* or the promise of a fetch to await) and the module state it leaves.
getLiteLLMModelInfoMap ==
  IF cache # <<>> /\ now - cacheTimestamp < CACHE_DURATION_MS
    THEN [value |-> cache, awaits |-> 0, inflightPromise |-> inflightPromise,
          fetches |-> fetches]
  ELSE IF inflightPromise # <<>>
    THEN [value |-> <<>>, awaits |-> inflightPromise[1],
          inflightPromise |-> inflightPromise, fetches |-> fetches]
    ELSE [value |-> <<>>, awaits |-> FreshId, inflightPromise |-> <<FreshId>>,
          fetches |-> Append(fetches, fetchLiteLLMModelInfoMap(FreshId))]

(***************************************************************************)
(* Usage snapshot: syncResponseUsage                                       *)
(***************************************************************************)
toPositiveNumber(x) ==
  LET parsed == NumberOf(x)
  IN IF parsed.t = "number" /\ parsed.v > 0 THEN parsed.v ELSE 0

toNonNegativeNumber(x) ==
  LET parsed == NumberOf(x)
  IN IF parsed.t = "number" /\ parsed.v >= 0 THEN parsed.v ELSE 0

\* <<n>> for a number, <<>> for null.
toOptionalNumber(x) ==
  LET parsed == NumberOf(x)
  IN IF parsed.t = "number" THEN <<parsed.v>> ELSE <<>>

\* obj?.a?.b...: <<>> when a step of the path is undefined.
RECURSIVE Get(_, _)
Get(obj, path) ==
  IF ~Has(obj, Head(path)) THEN <<>>
  ELSE IF Len(path) = 1 THEN <<obj[Head(path)]>>
  ELSE Get(obj[Head(path)], Tail(path))

Nullish(x) == x = <<>> \/ x[1].t = "null"

\* a ?? b
Coalesce(a, b) == IF Nullish(a) THEN b ELSE a

getReasoningTokens(usage) ==
  toPositiveNumber(
    Coalesce(Get(usage, <<"reasoning_tokens">>),
      Coalesce(Get(usage, <<"output_token_details", "reasoning_tokens">>),
        Coalesce(Get(usage, <<"completion_tokens_details", "reasoning_tokens">>),
                 Get(usage, <<"usage", "completion_tokens_details", "reasoning_tokens">>)))))

\* collectedUsage.filter(Boolean).reduce(...): a null element is <<>>.
RECURSIVE SumReasoning(_)
SumReasoning(usageList) ==
  IF usageList = <<>> THEN 0
  ELSE (IF Head(usageList) = <<>> THEN 0 ELSE getReasoningTokens(Head(usageList)[1]))
         + SumReasoning(Tail(usageList))

Max(a, b) == IF a > b THEN a ELSE b

\* Variant: the reported reasoning tokens are not capped by the output tokens.
buildUsageBreakdownUncapped(streamUsage, collectedUsage) ==
  LET inputTokens == toPositiveNumber(Field(streamUsage, "input_tokens"))
      outputTokens == toPositiveNumber(Field(streamUsage, "output_tokens"))
      reasoningTokens == SumReasoning(collectedUsage)
  IN [inputTokens |-> inputTokens, outputTokens |-> outputTokens,
      effectiveInputTokens |-> inputTokens,
      effectiveOutputTokens |-> outputTokens - reasoningTokens,
      reasoningTokens |-> reasoningTokens]

\* collectedUsage is <<>> when the client holds no array.
buildUsageBreakdown(streamUsage, collectedUsage) ==
  LET inputTokens == toPositiveNumber(Field(streamUsage, "input_tokens"))
      outputTokens == toPositiveNumber(Field(streamUsage, "output_tokens"))
      reasoningTokens == Min(outputTokens, SumReasoning(collectedUsage))
  IN [inputTokens |-> inputTokens, outputTokens |-> outputTokens,
      effectiveInputTokens |-> inputTokens,
      effectiveOutputTokens |-> Max(0, outputTokens - reasoningTokens),
      reasoningTokens |-> reasoningTokens]

\* A rate that is null is <<>>. modelInfo is <<>> when the map has no entry.
buildRates(modelInfo) ==
  IF modelInfo = <<>> THEN <<>>
  ELSE LET inputCostPerToken == toOptionalNumber(Field(modelInfo[1], "input_cost_per_token"))
           outputCostPerToken == toOptionalNumber(Field(modelInfo[1], "output_cost_per_token"))
           reasoning == toOptionalNumber(Field(modelInfo[1], "output_cost_per_reasoning_token"))
           outputCostPerReasoningToken ==
             IF reasoning = <<>> THEN outputCostPerToken ELSE reasoning
       IN IF inputCostPerToken = <<>> /\ outputCostPerToken = <<>>
               /\ outputCostPerReasoningToken = <<>>
            THEN <<>>
            ELSE << [input_cost_per_token |-> inputCostPerToken,
                     output_cost_per_token |-> outputCostPerToken,
                     output_cost_per_reasoning_token |-> outputCostPerReasoningToken] >>

\* A rate of the rates object as the value toNonNegativeNumber receives.
RateValue(r) == IF r = <<>> THEN <<JsNull>> ELSE <<Num(r[1])>>

\* Variant: the total leaves the reasoning cost out.
buildCostsNoReasoning(breakdown, rates) ==
  IF rates = <<>> THEN <<>>
  ELSE LET inputCost ==
             breakdown.effectiveInputTokens
               * toNonNegativeNumber(RateValue(rates[1].input_cost_per_token))
           outputCost ==
             breakdown.effectiveOutputTokens
               * toNonNegativeNumber(RateValue(rates[1].output_cost_per_token))
           reasoningCost ==
             breakdown.reasoningTokens
               * toNonNegativeNumber(RateValue(rates[1].output_cost_per_reasoning_token))
       IN << [input |-> inputCost, output |-> outputCost, reasoning |-> reasoningCost,
              total |-> inputCost + outputCost] >>

buildCosts(breakdown, rates) ==
  IF rates = <<>> THEN <<>>
  ELSE LET inputCost ==
             breakdown.effectiveInputTokens
               * toNonNegativeNumber(RateValue(rates[1].input_cost_per_token))
           outputCost ==
             breakdown.effectiveOutputTokens
               * toNonNegativeNumber(RateValue(rates[1].output_cost_per_token))
           reasoningCost ==
             breakdown.reasoningTokens
               * toNonNegativeNumber(RateValue(rates[1].output_cost_per_reasoning_token))
       IN << [input |-> inputCost, output |-> outputCost, reasoning |-> reasoningCost,
              total |-> inputCost + outputCost + reasoningCost] >>

\* response.model || response?.metadata?.model, "" when neither is set.
ModelOf(response) ==
  IF Has(response, "model") /\ response.model # "" THEN response.model
  ELSE IF Has(response, "metadata") /\ Has(response.metadata, "model")
    THEN response.metadata.model
  ELSE ""

\* obj with obj.f = v
With(obj, f, v) == (f :> v) @@ obj

\* Variant: both counts are written whatever their value.
AttachTokensAlways(response, breakdown) ==
  With(With(response, "promptTokens", breakdown.inputTokens),
       "tokenCount", breakdown.outputTokens)

\* Lines 188-193.
AttachTokens(response, breakdown) ==
  LET r1 == IF breakdown.inputTokens > 0
              THEN With(response, "promptTokens", breakdown.inputTokens)
              ELSE response
  IN IF breakdown.outputTokens > 0 THEN With(r1, "tokenCount", breakdown.outputTokens)
     ELSE r1

\* Lines 211-224: the response with the snapshot in its metadata.
WithSnapshot(response, breakdown, model, rates, costs) ==
  LET base == [version |-> 2, input_tokens |-> breakdown.inputTokens,
               output_tokens |-> breakdown.outputTokens,
               reasoning_tokens |-> breakdown.reasoningTokens,
               currency |-> "USD", calculated_at |-> now]
      m == IF model # "" THEN With(base, "model", model) ELSE base
      r == IF rates # <<>> THEN With(m, "rates", rates[1]) ELSE m
      c == IF costs # <<>> THEN With(r, "costs", costs[1]) ELSE r
      metadata == IF Has(response, "metadata") THEN response.metadata ELSE EmptyMap
  IN With(response, "metadata", With(metadata, "forked_litellm_usage", c))

\* The message saveMessage is called with (lines 229-234).
SavedMessage(response, breakdown) ==
  LET msg == [messageId |-> response.messageId, conversationId |-> response.conversationId,
              metadata |-> response.metadata]
  IN IF breakdown.outputTokens > 0 THEN With(msg, "tokenCount", breakdown.outputTokens)
     ELSE msg

\* A call that has returned: the promise of syncResponseUsage is settled.
Return(response, settle) == <<[response |-> response, settle |-> settle]>>

\* At most this many syncResponseUsage calls run at once.
MaxPasses == 2

\* syncResponseUsage up to its first await (lines 176-206, and 209-227 for a
\* response without model).
StartPass(call) ==
  LET streamUsage == IF call.client = <<>> THEN <<>> ELSE Field(call.client[1], "streamUsage")
  IN /\ Len(passes) < MaxPasses
     /\ IF streamUsage = <<>> \/ call.response = <<>>
          THEN /\ returned' = Return(call.response, "resolve")
               /\ UNCHANGED <<inflightPromise, fetches, passes>>
          ELSE LET collectedUsage ==
                     IF Has(call.client[1], "collectedUsage")
                       THEN call.client[1].collectedUsage ELSE <<>>
                   breakdown == buildUsageBreakdown(streamUsage[1], collectedUsage)
                   response == AttachTokens(call.response[1], breakdown)
                   model == ModelOf(response)
                   look == getLiteLLMModelInfoMap
                   pass == [response |-> response, breakdown |-> breakdown,
                            model |-> model, pc |-> "map", awaits |-> 0, map |-> <<>>]
               IN IF \/ ~Has(response, "messageId") \/ response.messageId = ""
                     \/ ~Has(response, "conversationId") \/ response.conversationId = ""
                     \/ (breakdown.inputTokens <= 0 /\ breakdown.outputTokens <= 0)
                     \/ ~call.persist \/ ~call.req
                    THEN /\ returned' = Return(<<response>>, "resolve")
                         /\ UNCHANGED <<inflightPromise, fetches, passes>>
                  ELSE IF model # ""
                    THEN /\ passes' =
                              Append(passes,
                                     IF look.awaits = 0
                                       THEN [pass EXCEPT !.pc = "resume", !.map = look.value]
                                       ELSE [pass EXCEPT !.awaits = look.awaits])
                         /\ inflightPromise' = look.inflightPromise
                         /\ fetches' = look.fetches
                         /\ returned' = <<>>
                    ELSE /\ passes' =
                              Append(passes,
                                     [pass EXCEPT
                                        !.pc = "save",
                                        !.response =
                                          WithSnapshot(response, breakdown, "", <<>>,
                                                       buildCosts(breakdown, <<>>))])
                         /\ returned' = <<>>
                         /\ UNCHANGED <<inflightPromise, fetches>>
     /\ UNCHANGED <<env, rq, guardVars, costVars, rateVars, LITELLM_API_KEY, args, fetchedAt, now, cache, cacheTimestamp, store>>

\* Lines 207-227: the map has arrived; up to the await of saveMessage.
PassResume(i) ==
  /\ i \in 1..Len(passes)
  /\ passes[i].pc = "resume"
  /\ LET pass == passes[i]
         modelInfoMap == pass.map[1]
         rates == buildRates(IF pass.model \in DOMAIN modelInfoMap
                               THEN <<modelInfoMap[pass.model]>> ELSE <<>>)
         costs == buildCosts(pass.breakdown, rates)
     IN passes' = [passes EXCEPT
                     ![i] = [pass EXCEPT
                               !.pc = "save",
                               !.response = WithSnapshot(pass.response, pass.breakdown,
                                                         pass.model, rates, costs)]]
  /\ returned' = <<>>
  /\ UNCHANGED <<env, rq, guardVars, costVars, rateVars, LITELLM_API_KEY, args, fetchedAt, now, cache, cacheTimestamp,
                 inflightPromise, fetches, store>>

\* Variant: a failed write rejects the call.
SaveSettlesRaising(i, ok) ==
  /\ i \in 1..Len(passes)
  /\ passes[i].pc = "save"
  /\ store' = IF ok THEN <<SavedMessage(passes[i].response, passes[i].breakdown)>> ELSE store
  /\ returned' = Return(<<passes[i].response>>,
                        IF ok THEN "resolve" ELSE "reject")
  /\ passes' = Remove(passes, i)
  /\ UNCHANGED <<env, rq, guardVars, costVars, rateVars, LITELLM_API_KEY, args, fetchedAt, now, cache, cacheTimestamp,
                 inflightPromise, fetches>>

\* saveMessage settles (lines 226-245): the write is stored, or it failed and
\* the failure is logged; the call returns the response.
SaveSettles(i, ok) ==
  /\ i \in 1..Len(passes)
  /\ passes[i].pc = "save"
  /\ store' = IF ok THEN <<SavedMessage(passes[i].response, passes[i].breakdown)>> ELSE store
  /\ returned' = Return(<<passes[i].response>>, "resolve")
  /\ passes' = Remove(passes, i)
  /\ UNCHANGED <<env, rq, guardVars, costVars, rateVars, LITELLM_API_KEY, args, fetchedAt, now, cache, cacheTimestamp,
                 inflightPromise, fetches>>

\* The /model/info request of fetch i succeeds: the then callback (lines 60-64).
FetchResolves(i, payload) ==
  /\ i \in 1..Len(fetches)
  /\ fetches[i].pc = "request"
  /\ fetches[i].age < FetchTimeout
  /\ LET data == toModelInfoMap(payload)
     IN /\ cache' = <<data>>
        /\ cacheTimestamp' = now
        /\ fetchedAt' = now
        /\ fetches' = [fetches EXCEPT ![i].pc = "finally", ![i].result = <<data>>]
  /\ returned' = <<>>
  /\ UNCHANGED <<env, rq, guardVars, costVars, rateVars, LITELLM_API_KEY, args, now, inflightPromise, passes, store>>

\* Without an API key fetchLiteLLMModelInfoMap resolved with {} (line 33).
NoKeyResolves(i) ==
  /\ i \in 1..Len(fetches)
  /\ fetches[i].pc = "nokey"
  /\ cache' = <<EmptyMap>>
  /\ cacheTimestamp' = now
  /\ fetches' = [fetches EXCEPT ![i].pc = "finally", ![i].result = <<EmptyMap>>]
  /\ returned' = <<>>
  /\ UNCHANGED <<env, rq, guardVars, costVars, rateVars, LITELLM_API_KEY, args, fetchedAt, now, inflightPromise, passes, store>>

\* The request fails (network error, non-2xx, or the timeout once it is
\* due): the catch callback (lines 65-70).
\* Variant: the catch callback returns an empty map whatever the cache holds.
FetchFailsEmpty(i, kind) ==
  /\ i \in 1..Len(fetches)
  /\ fetches[i].pc = "request"
  /\ IF kind = "timeout" THEN fetches[i].age = FetchTimeout ELSE fetches[i].age < FetchTimeout
  /\ fetches' = [fetches EXCEPT ![i].pc = "finally", ![i].result = <<EmptyMap>>]
  /\ returned' = <<>>
  /\ UNCHANGED <<env, rq, guardVars, costVars, rateVars, LITELLM_API_KEY, args, fetchedAt, now, cache, cacheTimestamp,
                 inflightPromise, passes, store>>

FetchFails(i, kind) ==
  /\ i \in 1..Len(fetches)
  /\ fetches[i].pc = "request"
  /\ IF kind = "timeout" THEN fetches[i].age = FetchTimeout ELSE fetches[i].age < FetchTimeout
  /\ fetches' = [fetches EXCEPT
                   ![i].pc = "finally",
                   ![i].result = IF cache # <<>> THEN cache ELSE <<EmptyMap>>]
  /\ returned' = <<>>
  /\ UNCHANGED <<env, rq, guardVars, costVars, rateVars, LITELLM_API_KEY, args, fetchedAt, now, cache, cacheTimestamp,
                 inflightPromise, passes, store>>

\* The finally callback (lines 71-73); the promise the callers await is
\* fulfilled with the result of the fetch.
FetchFinally(i) ==
  /\ i \in 1..Len(fetches)
  /\ fetches[i].pc = "finally"
  /\ inflightPromise' = <<>>
  /\ passes' = [j \in 1..Len(passes) |->
                  IF passes[j].awaits = fetches[i].id
                    THEN [passes[j] EXCEPT !.pc = "resume", !.awaits = 0,
                                           !.map = fetches[i].result]
                    ELSE passes[j]]
  /\ fetches' = Remove(fetches, i)
  /\ returned' = <<>>
  /\ UNCHANGED <<env, rq, guardVars, costVars, rateVars, LITELLM_API_KEY, args, fetchedAt, now, cache, cacheTimestamp, store>>

\* A request in flight is followed in steps of this many ms.
FetchTick == FetchTimeout \div 2

\* At most this many FetchTick are followed between two CacheTick.
MaxFetchTicks == 3

\* Time passes on the server: in steps of FetchTick while a request is in
\* flight, of CacheTick otherwise. Callbacks that are due run first.
UsageTick ==
  /\ \A i \in 1..Len(fetches) : fetches[i].pc = "request" /\ fetches[i].age < FetchTimeout
  /\ \A i \in 1..Len(passes) : passes[i].pc # "resume"
  /\ IF fetches # <<>>
       THEN /\ now % CacheTick < MaxFetchTicks * FetchTick
            /\ now' = now + FetchTick
            /\ fetches' = [i \in 1..Len(fetches) |->
                             [fetches[i] EXCEPT !.age = @ + FetchTick]]
       ELSE /\ now < MaxTicks * CacheTick
            /\ now' = now + CacheTick
            /\ UNCHANGED fetches
  /\ returned' = <<>>
  /\ UNCHANGED <<env, rq, guardVars, costVars, rateVars, LITELLM_API_KEY, args, fetchedAt, cache, cacheTimestamp,
                 inflightPromise, passes, store>>

\* client.getStreamUsage() and client.collectedUsage.
StreamUsages ==
  { [input_tokens |-> Num(1000), output_tokens |-> Num(500)],
    [input_tokens |-> Num(0), output_tokens |-> Num(0)],
    [input_tokens |-> Str(<<"7">>)],
    [input_tokens |-> NaN, output_tokens |-> Num(-5)],
    [input_tokens |-> JsNull, output_tokens |-> Num(200)] }

CollectedUsages ==
  { <<>>,
    << <<[reasoning_tokens |-> Num(100)]>> >>,
    << <<[output_token_details |-> [reasoning_tokens |-> Num(300)]]>>, <<>>,
       <<[reasoning_tokens |-> JsNull,
          completion_tokens_details |-> [reasoning_tokens |-> Num(400)]]>> >>,
    << <<[usage |-> [completion_tokens_details |-> [reasoning_tokens |-> Num(50)]]]>> >>,
    << <<[reasoning_tokens |-> Num(-100)]>>, <<[reasoning_tokens |-> Str(<<"n", "o">>)]>> >> }

Clients ==
  { <<>>, << [collectedUsage |-> <<>>] >>, << [streamUsage |-> [input_tokens |-> Num(1000)]] >> }
    \cup { << [streamUsage |-> su, collectedUsage |-> cu] >> :
             su \in StreamUsages, cu \in CollectedUsages }

Message(model) ==
  [messageId |-> "m1", conversationId |-> "c1", model |-> model, promptTokens |-> 900]

Responses ==
  { <<>>,
    << [messageId |-> "m1", conversationId |-> "c1"] >>,
    << [messageId |-> "m1", conversationId |-> "c1", model |-> "",
        metadata |-> [model |-> "gpt", feedback |-> "up"]] >>,
    << [conversationId |-> "c1", model |-> "gpt", tokenCount |-> 40] >>,
    << [messageId |-> "m1", conversationId |-> "", model |-> "gpt"] >> }
    \cup { << Message(model) >> :
             model \in {"gpt", "openai/gpt", "o1", "o3", "local", "embed", "refund", "o4", "bare",
                       "other"} }

Calls ==
  [client : Clients, response : Responses, req : BOOLEAN, persist : BOOLEAN]

\* The persist calls of concurrent chat requests.
CacheCalls ==
  { [client |-> << [streamUsage |-> [input_tokens |-> Num(1000), output_tokens |-> Num(500)]] >>,
     response |-> << Message(model) >>, req |-> TRUE, persist |-> TRUE] :
      model \in {"gpt", "o1"} }

\* The guard and the billing route are at rest.
ServerInit ==
  /\ env = CHOOSE e \in Envs : TRUE
  /\ rq = IdleRun
  /\ GuardInit
  /\ pathname = CHOOSE p \in Paths : TRUE
  /\ LITELLM_API_KEY \in BOOLEAN
  /\ UsageInit
  /\ CostInit

\* One syncResponseUsage call at a time, for every input; the server clock
\* stands still, so that no cache entry expires.
UsageNext ==
  \/ passes = <<>> /\ StartPass(args)
  \/ \E i \in 1..MaxPasses : PassResume(i)
  \/ \E i \in 1..MaxPasses, ok \in BOOLEAN : SaveSettles(i, ok)
  \/ \E i \in 1..MaxPasses, payload \in Payloads : FetchResolves(i, payload)
  \/ \E i \in 1..MaxPasses : NoKeyResolves(i)
  \/ \E i \in 1..MaxPasses, kind \in FailKinds : FetchFails(i, kind)
  \/ \E i \in 1..MaxPasses : FetchFinally(i)

UsageSpecInit == ServerInit /\ args \in Calls

SpecUsage == UsageSpecInit /\ [][UsageNext]_vars

\* Concurrent persist calls against the pricing cache.
CacheNext ==
  \/ StartPass(args)
  \/ \E i \in 1..MaxPasses : PassResume(i)
  \/ \E i \in 1..MaxPasses, ok \in BOOLEAN : SaveSettles(i, ok)
  \/ \E i \in 1..MaxPasses, payload \in Payloads : FetchResolves(i, payload)
  \/ \E i \in 1..MaxPasses : NoKeyResolves(i)
  \/ \E i \in 1..MaxPasses, kind \in FailKinds : FetchFails(i, kind)
  \/ \E i \in 1..MaxPasses : FetchFinally(i)
  \/ UsageTick

CacheSpecInit == ServerInit /\ args \in CacheCalls

SpecCache == CacheSpecInit /\ [][CacheNext]_vars

(***************************************************************************)
(* Cost badge: ResponseCost (client/src/forked-code-custom/                *)
(* ResponseCost.tsx, src/unnamed/part_005 lines 1-919)                     *)
(*                                                                         *)
(* toPositiveNumber and toNonNegativeNumber of the client (lines 108-116)  *)
(* are the functions of the server, word for word. A number read from the  *)
(* stored snapshot is a JSON number; a field of a pricing entry is any     *)
(* JSON value. An exchange rate is a whole number of NOK per USD and the   *)
(* cost margin a whole number of percent. A rate per million tokens is     *)
(* counted in units of 1e-3 USD, which makes it the same number as the     *)
(* rate per token in units of 1e-9 USD.                                    *)
(***************************************************************************)
\* obj.f of a stored snapshot as a JavaScript value.
JsonField(obj, f) == IF Has(obj, f) THEN <<Num(obj[f])>> ELSE <<>>

\* The rates of a stored snapshot as the object JSON.parse gives.
JsonRates(rates) ==
  [f \in DOMAIN rates |-> IF rates[f] = <<>> THEN JsNull ELSE Num(rates[f][1])]

\* !x of a JavaScript value.
Falsy(x) ==
  \/ x = <<>>
  \/ x[1].t \in {"null", "NaN"}
  \/ x[1].t = "number" /\ x[1].v = 0
  \/ x[1].t = "string" /\ x[1].v = <<>>

\* reasoningTokens is <<>> for null; model is "" for undefined.
buildBreakdownFromRates(model, inputTokens, outputTokens, reasoningTokens, rates, lockedRates) ==
  LET cappedReasoningTokens ==
        IF reasoningTokens # <<>> THEN <<Min(outputTokens, reasoningTokens[1])>> ELSE <<>>
      capped == IF cappedReasoningTokens = <<>> THEN 0 ELSE cappedReasoningTokens[1]
      effectiveOutputTokens == Max(0, outputTokens - capped)
      inputRate == toNonNegativeNumber(Field(rates, "input_cost_per_token"))
      outputRate == toNonNegativeNumber(Field(rates, "output_cost_per_token"))
      reasoningField == Field(rates, "output_cost_per_reasoning_token")
      reasoningRate ==
        toNonNegativeNumber(IF Falsy(reasoningField) THEN <<Num(outputRate)>>
                            ELSE reasoningField)
      inputCost == inputTokens * inputRate
      outputCost == effectiveOutputTokens * outputRate
      reasoningCost == capped * reasoningRate
  IN [model |-> model, currency |-> "USD", lockedRates |-> lockedRates,
      inputTokens |-> inputTokens, outputTokens |-> outputTokens,
      reasoningTokens |-> cappedReasoningTokens,
      effectiveInputTokens |-> inputTokens,
      effectiveOutputTokens |-> effectiveOutputTokens,
      inputCost |-> inputCost, outputCost |-> outputCost,
      reasoningCost |-> reasoningCost,
      totalCost |-> inputCost + outputCost + reasoningCost,
      inputRatePerMillion |-> inputRate, outputRatePerMillion |-> outputRate]

\* <<>> for null. The two per-million rates of a snapshot with costs only
\* are quotients, rounded down here to a whole unit.
buildBreakdownFromSnapshot(model, usage) ==
  LET inputTokens == toPositiveNumber(JsonField(usage, "input_tokens"))
      outputTokens == toPositiveNumber(JsonField(usage, "output_tokens"))
      reasoningTokens ==
        IF Has(usage, "reasoning_tokens")
          THEN <<toNonNegativeNumber(JsonField(usage, "reasoning_tokens"))>> ELSE <<>>
      usedModel == IF Has(usage, "model") /\ usage.model # "" THEN usage.model ELSE model
  IN IF Has(usage, "rates")
       THEN <<buildBreakdownFromRates(usedModel, inputTokens, outputTokens, reasoningTokens,
                                      JsonRates(usage.rates), TRUE)>>
     ELSE IF ~Has(usage, "costs") \/ ~Has(usage.costs, "total") THEN <<>>
     ELSE LET costs == usage.costs
              cappedReasoningTokens ==
                IF reasoningTokens # <<>> THEN <<Min(outputTokens, reasoningTokens[1])>>
                ELSE <<>>
              capped == IF cappedReasoningTokens = <<>> THEN 0 ELSE cappedReasoningTokens[1]
              effectiveOutputTokens == Max(0, outputTokens - capped)
              inputCostVal == toNonNegativeNumber(JsonField(costs, "input"))
              outputCostVal == toNonNegativeNumber(JsonField(costs, "output"))
          IN << [model |-> usedModel,
                 currency |-> IF Has(usage, "currency") /\ usage.currency # ""
                                THEN usage.currency ELSE "USD",
                 lockedRates |-> TRUE,
                 inputTokens |-> inputTokens, outputTokens |-> outputTokens,
                 reasoningTokens |-> cappedReasoningTokens,
                 effectiveInputTokens |-> inputTokens,
                 effectiveOutputTokens |-> effectiveOutputTokens,
                 inputCost |-> inputCostVal, outputCost |-> outputCostVal,
                 reasoningCost |-> toNonNegativeNumber(JsonField(costs, "reasoning")),
                 totalCost |-> toNonNegativeNumber(JsonField(costs, "total")),
                 inputRatePerMillion |->
                   IF inputTokens > 0 THEN inputCostVal \div inputTokens ELSE 0,
                 outputRatePerMillion |->
                   IF effectiveOutputTokens > 0
                     THEN outputCostVal \div effectiveOutputTokens ELSE 0] >>

\* msg.metadata?.forked_litellm_usage, <<>> when undefined.
SnapshotOf(msg) ==
  IF Has(msg, "metadata") /\ Has(msg.metadata, "forked_litellm_usage")
    THEN <<msg.metadata.forked_litellm_usage>> ELSE <<>>

getTokenUsage(msg) ==
  LET metadataUsage == SnapshotOf(msg)
      promptTokens == IF Has(msg, "promptTokens") /\ msg.promptTokens > 0
                        THEN msg.promptTokens ELSE 0
      completionTokens == IF Has(msg, "tokenCount") /\ msg.tokenCount > 0
                            THEN msg.tokenCount ELSE 0
      metadataPromptTokens ==
        IF metadataUsage = <<>> THEN 0
        ELSE toPositiveNumber(JsonField(metadataUsage[1], "input_tokens"))
      metadataCompletionTokens ==
        IF metadataUsage = <<>> THEN 0
        ELSE toPositiveNumber(JsonField(metadataUsage[1], "output_tokens"))
  IN [promptTokens |-> IF metadataPromptTokens # 0 THEN metadataPromptTokens
                       ELSE promptTokens,
      completionTokens |-> IF metadataCompletionTokens # 0 THEN metadataCompletionTokens
                           ELSE completionTokens,
      reasoningTokens |->
        IF metadataUsage # <<>> /\ Has(metadataUsage[1], "reasoning_tokens")
          THEN <<toNonNegativeNumber(JsonField(metadataUsage[1], "reasoning_tokens"))>>
          ELSE <<>>,
      snapshot |-> metadataUsage]

shouldShowCost(msg) ==
  /\ ~Truthy(msg, "isCreatedByUser")
  /\ getTokenUsage(msg).promptTokens > 0 \/ getTokenUsage(msg).completionTokens > 0

\* "" for undefined.
getMessageModel(msg) ==
  IF Has(msg, "model") /\ msg.model # "" THEN msg.model
  ELSE IF Has(msg, "model_name") /\ msg.model_name # "" THEN msg.model_name
  ELSE IF Has(msg, "metadata") /\ Has(msg.metadata, "model") /\ msg.metadata.model # ""
    THEN msg.metadata.model
  ELSE ""

\* CLAUDE_COMPARISON (lines 185-190), in units of 1e-9 USD per token.
CLAUDE_COMPARISON ==
  [keys |-> <<"claude-opus-4-6", "anthropic/claude-opus-4-6">>,
   fallbackInputPerToken |-> 5000, fallbackOutputPerToken |-> 25000]

\* The model names of the pricing maps whose lower case holds 'claude-opus-4'.
OpusNames == {"claude-opus-4-6", "anthropic/claude-opus-4-6", "Claude-Opus-4-1"}

HasBothPrices(info) ==
  /\ ~Nullish(Field(info, "input_cost_per_token"))
  /\ ~Nullish(Field(info, "output_cost_per_token"))

\* The rates are kept as the JavaScript values of the entry.
findClaudeRates(modelInfoMap) ==
  LET keyed == {k \in 1..2 : /\ CLAUDE_COMPARISON.keys[k] \in DOMAIN modelInfoMap
                             /\ HasBothPrices(modelInfoMap[CLAUDE_COMPARISON.keys[k]])}
      opus == DOMAIN modelInfoMap \cap OpusNames
  IN IF keyed # {}
       THEN LET info == modelInfoMap[CLAUDE_COMPARISON.keys[CHOOSE k \in keyed :
                                                              \A j \in keyed : k <= j]]
            IN [inputPerToken |-> info.input_cost_per_token,
                outputPerToken |-> info.output_cost_per_token]
     ELSE IF opus # {} /\ HasBothPrices(modelInfoMap[CHOOSE k \in opus : TRUE])
       THEN LET info == modelInfoMap[CHOOSE k \in opus : TRUE]
            IN [inputPerToken |-> info.input_cost_per_token,
                outputPerToken |-> info.output_cost_per_token]
     ELSE [inputPerToken |-> Num(CLAUDE_COMPARISON.fallbackInputPerToken),
           outputPerToken |-> Num(CLAUDE_COMPARISON.fallbackOutputPerToken)]

normalizeCurrency(currency) == IF currency = "NOK" THEN "NOK" ELSE "USD"

\* rate is <<>> for null. NOK to USD rounds down to a whole unit.
convertCurrency(amount, from, to, rate) ==
  IF from = to THEN amount
  ELSE IF rate = <<>> \/ rate[1] <= 0 THEN amount
  ELSE IF from = "USD" /\ to = "NOK" THEN amount * rate[1]
  ELSE IF from = "NOK" /\ to = "USD" THEN amount \div rate[1]
  ELSE amount

\* n * x and a + b of JavaScript, the second factor being any JSON value.
Times(n, x) ==
  LET parsed == NumberOf(<<x>>)
  IN IF parsed.t = "number" THEN Num(n * parsed.v) ELSE NaN

Plus(a, b) == IF a.t = "number" /\ b.t = "number" THEN Num(a.v + b.v) ELSE NaN

baseCurrency == normalizeCurrency(IF costBreakdown = <<>> THEN "" ELSE costBreakdown[1].currency)

\* Variant: the preference is shown whether or not a rate is known.
displayCurrencyAsPreferred == displayCurrencyPreference

displayCurrency ==
  IF costBreakdown = <<>> THEN displayCurrencyPreference
  ELSE IF displayCurrencyPreference = baseCurrency THEN displayCurrencyPreference
  ELSE IF usdToNokRate # <<>> /\ usdToNokRate[1] > 0 THEN displayCurrencyPreference
  ELSE baseCurrency

convertForDisplay(value, fromCurrency) ==
  convertCurrency(value, fromCurrency, displayCurrency, usdToNokRate)

\* value * marginMultiplier, marginMultiplier being 1 + costMargin.
TimesMargin(value) == value + (value * costMargin) \div 100

displayedTotalCost ==
  IF costBreakdown = <<>> THEN 0
  ELSE convertForDisplay(TimesMargin(costBreakdown[1].totalCost), baseCurrency)

\* <<>> for null.
breakdownTotalInUsd ==
  IF costBreakdown = <<>> THEN <<>>
  ELSE <<convertCurrency(TimesMargin(costBreakdown[1].totalCost), baseCurrency, "USD",
                         usdToNokRate)>>

\* <<>> for null; a comparison with NaN is false.
claudeCost ==
  IF costBreakdown = <<>> \/ claudeRates = <<>> \/ breakdownTotalInUsd = <<>> THEN <<>>
  ELSE LET cost == Plus(Times(costBreakdown[1].inputTokens, claudeRates[1].inputPerToken),
                        Times(costBreakdown[1].outputTokens, claudeRates[1].outputPerToken))
       IN IF cost.t = "number" /\ (cost.v <= 0 \/ cost.v <= breakdownTotalInUsd[1])
            THEN <<>> ELSE <<cost>>

displayedClaudeCost ==
  IF claudeCost = <<>> THEN <<>>
  ELSE IF claudeCost[1].t # "number" THEN <<NaN>>
  ELSE <<Num(convertCurrency(claudeCost[1].v, "USD", displayCurrency, usdToNokRate))>>

showingFallbackCurrency ==
  /\ displayCurrencyPreference = "NOK"
  /\ displayCurrency = "USD"
  /\ baseCurrency = "USD"
  /\ usdToNokRate = <<>> \/ usdToNokRate[1] <= 0

\* An amount as formatCurrencyValue and formatRate show it: the value with
\* the prefix of the currency.
Shown(value, currency) == [value |-> value, currency |-> currency]

\* What ResponseCost returns (lines 726-919): <<>> for null, otherwise the
\* badge with the amounts of its dialog (the row of a cost is shown when its
\* token count is positive).
Badge ==
  IF \/ message = <<>> \/ ~shouldShowCost(message[1])
     \/ costBreakdown = <<>> \/ costBreakdown[1].totalCost <= 0
    THEN <<>>
    ELSE LET b == costBreakdown[1]
         IN << [compactCostDisplay |-> Shown(TimesMargin(b.totalCost), baseCurrency),
                lockedRates |-> b.lockedRates,
                fallbackCurrencyNotice |-> showingFallbackCurrency,
                inputRate |-> Shown(convertForDisplay(b.inputRatePerMillion, baseCurrency),
                                    displayCurrency),
                outputRate |-> Shown(convertForDisplay(b.outputRatePerMillion, baseCurrency),
                                     displayCurrency),
                inputCost |-> Shown(convertForDisplay(TimesMargin(b.inputCost), baseCurrency),
                                    displayCurrency),
                outputCost |-> Shown(convertForDisplay(TimesMargin(b.outputCost), baseCurrency),
                                     displayCurrency),
                reasoningCost |->
                  Shown(convertForDisplay(TimesMargin(b.reasoningCost), baseCurrency),
                        displayCurrency),
                total |-> Shown(displayedTotalCost, displayCurrency),
                claude |-> IF displayedClaudeCost = <<>> THEN <<>>
                           ELSE <<Shown(displayedClaudeCost[1], displayCurrency)>>] >>

\* conversation?.endpoint: the badge belongs to a message of a conversation
\* that was started on an endpoint.
conversation == [endpoint |-> "LiteLLM"]

\* The document of the message store after the write of the persist pass:
\* the message as it was saved with the response, updated by the write.
StoredDocument == store[1] @@ args.response[1]

\* Messages of the store whose snapshot an earlier deployment wrote: costs
\* without rates, reasoning tokens above the output tokens, and a message of
\* the user.
StoredMessages ==
  { [messageId |-> "m0", conversationId |-> "c1", model |-> "gpt",
     promptTokens |-> 1000, tokenCount |-> 500,
     metadata |-> [forked_litellm_usage |->
                     [version |-> 1, input_tokens |-> 1000, output_tokens |-> 500,
                      costs |-> [input |-> 5000000, output |-> 7500000, reasoning |-> 0,
                                 total |-> 12500000],
                      currency |-> "USD"]]],
    [messageId |-> "m0", conversationId |-> "c1", model |-> "o1",
     promptTokens |-> 1000, tokenCount |-> 500,
     metadata |-> [forked_litellm_usage |->
                     [version |-> 2, model |-> "o1", input_tokens |-> 1000,
                      output_tokens |-> 500, reasoning_tokens |-> 700,
                      rates |-> [input_cost_per_token |-> <<3000>>,
                                 output_cost_per_token |-> <<12000>>,
                                 output_cost_per_reasoning_token |-> <<60000>>],
                      currency |-> "USD"]]],
    [messageId |-> "m0", conversationId |-> "c1", isCreatedByUser |-> TRUE,
     tokenCount |-> 10] }

\* The messages the message list can hand to ResponseCost: the response
\* object in memory, as the last syncResponseUsage call returned it or as a
\* running persist pass holds it (it goes out with the final event of the
\* stream, which does not wait for the persist pass), the stored document,
\* and the older messages of the store.
Delivered ==
  (IF returned # <<>> /\ returned[1].response # <<>> THEN {returned[1].response[1]} ELSE {})
    \cup {passes[i].response : i \in 1..Len(passes)}
    \cup (IF store # <<>> /\ args.response # <<>> THEN {StoredDocument} ELSE {})
    \cup StoredMessages

\* ResponseCost is rendered with the message prop msg: the reset effect
\* (lines 486-489) runs when messageId or model changed, the cost effect
\* (lines 491-588) is cleaned up and run again, up to the await of the
\* pricing map in calculateCost.
ResponseCost(msg) ==
  /\ message # <<msg>>
  /\ LET Prop(m, f) == IF Has(m, f) THEN <<m[f]>> ELSE <<>>
         changed == \/ message = <<>>
                    \/ Prop(message[1], "messageId") # Prop(msg, "messageId")
                    \/ Prop(message[1], "model") # Prop(msg, "model")
         complete == IF changed THEN FALSE ELSE calculationComplete
         usage == getTokenUsage(msg)
         runs == shouldShowCost(msg) /\ conversation.endpoint # "" /\ ~complete
     IN /\ message' = <<msg>>
        /\ costBreakdown' = IF changed THEN <<>> ELSE costBreakdown
        /\ IF runs /\ usage.promptTokens <= 0 /\ usage.completionTokens <= 0
             THEN calculationComplete' = TRUE /\ calc' = <<>>
             ELSE /\ calculationComplete' = complete
                  /\ calc' = IF runs THEN <<[message |-> msg]>> ELSE <<>>
  /\ UNCHANGED <<env, rq, guardVars, usageVars, rateVars, claudeRates, displayCurrencyPreference,
                 usdToNokRate, costMargin>>

\* Pricing maps of the client. litellmInfoAdapter.ts is not part of the
\* sources: fetchLiteLLMModelInfo is taken as the client-side pricing cache
\* the specification describes, which resolves with the map it holds, the
\* empty map when it has none.
ModelInfoMaps ==
  { toModelInfoMap(payload) : payload \in Payloads }
    \cup { toModelInfoMap([data |-> << Entry("gpt", Priced, ""),
                                     Entry("claude-opus-4-6",
                                           [input_cost_per_token |-> Num(15000),
                                            output_cost_per_token |-> Num(75000)], "") >>]) }

\* Variant: the live estimate is preferred to the stored snapshot.
AfterModelInfoLiveFirst(msg, modelInfoMap) ==
  LET messageModel == getMessageModel(msg)
      usage == getTokenUsage(msg)
      snapshotBreakdown ==
        IF usage.snapshot = <<>> THEN <<>>
        ELSE buildBreakdownFromSnapshot(messageModel, usage.snapshot[1])
  IN IF messageModel # "" /\ messageModel \in DOMAIN modelInfoMap
       THEN LET modelInfo == modelInfoMap[messageModel]
            IN <<buildBreakdownFromRates(
                   messageModel, usage.promptTokens, usage.completionTokens,
                   usage.reasoningTokens,
                   [input_cost_per_token |->
                      Coalesce(Field(modelInfo, "input_cost_per_token"), <<Num(0)>>)[1],
                    output_cost_per_token |->
                      Coalesce(Field(modelInfo, "output_cost_per_token"), <<Num(0)>>)[1]],
                   FALSE)>>
     ELSE snapshotBreakdown

\* calculateCost after the await (lines 516-573): the value setBreakdown is
\* called with, <<>> when it is not called.
AfterModelInfo(msg, modelInfoMap) ==
  LET messageModel == getMessageModel(msg)
      usage == getTokenUsage(msg)
      snapshotBreakdown ==
        IF usage.snapshot = <<>> THEN <<>>
        ELSE buildBreakdownFromSnapshot(messageModel, usage.snapshot[1])
  IN IF snapshotBreakdown # <<>> THEN snapshotBreakdown
     ELSE IF messageModel = "" THEN <<>>
     ELSE IF messageModel \notin DOMAIN modelInfoMap THEN <<>>
     ELSE LET modelInfo == modelInfoMap[messageModel]
              outputCost == Field(modelInfo, "output_cost_per_token")
              reasoningCost ==
                Coalesce(Field(modelInfo, "output_cost_per_reasoning_token"), outputCost)
              rates == [input_cost_per_token |->
                          Coalesce(Field(modelInfo, "input_cost_per_token"), <<Num(0)>>)[1],
                        output_cost_per_token |-> Coalesce(outputCost, <<Num(0)>>)[1]]
              fallbackBreakdown ==
                buildBreakdownFromRates(
                  messageModel, usage.promptTokens, usage.completionTokens,
                  usage.reasoningTokens,
                  IF reasoningCost = <<>> THEN rates
                  ELSE With(rates, "output_cost_per_reasoning_token", reasoningCost[1]),
                  FALSE)
          IN IF fallbackBreakdown.totalCost > 0 THEN <<fallbackBreakdown>> ELSE <<>>

\* The pricing map arrives at the calculateCost run that is still mounted.
ModelInfoResolves(modelInfoMap) ==
  /\ calc # <<>>
  /\ claudeRates' = <<findClaudeRates(modelInfoMap)>>
  /\ LET result == AfterModelInfo(calc[1].message, modelInfoMap)
     IN costBreakdown' = IF result # <<>> THEN result ELSE costBreakdown
  /\ calculationComplete' = TRUE
  /\ calc' = <<>>
  /\ UNCHANGED <<env, rq, guardVars, usageVars, rateVars, message, displayCurrencyPreference,
                 usdToNokRate, costMargin>>

handleCurrencyPreferenceChange(value) ==
  /\ displayCurrencyPreference' = IF value = "NOK" THEN "NOK" ELSE "USD"
  /\ displayCurrencyPreference' # displayCurrencyPreference
  /\ UNCHANGED <<env, rq, guardVars, usageVars, rateVars, message, costBreakdown, claudeRates,
                 calculationComplete, calc, usdToNokRate, costMargin>>

\* NOK per USD.
UsdToNokRates == {10}

\* getCurrencyRate of the mount effect (lines 366-371): fetchUsdToNokRate
\* resolved with a rate; when it resolves with null the state stays null.
RateArrives(rate) ==
  /\ message # <<>>
  /\ usdToNokRate = <<>>
  /\ usdToNokRate' = <<rate>>
  /\ UNCHANGED <<env, rq, guardVars, usageVars, rateVars, message, costBreakdown, claudeRates,
                 calculationComplete, calc, displayCurrencyPreference, costMargin>>

\* Cost margins of the server, in percent.
CostMargins == {20}

\* getMargin of the mount effect (lines 373-378).
MarginArrives(margin) ==
  /\ message # <<>>
  /\ costMargin = 0
  /\ costMargin' = margin
  /\ UNCHANGED <<env, rq, guardVars, usageVars, rateVars, message, costBreakdown, claudeRates,
                 calculationComplete, calc, displayCurrencyPreference, usdToNokRate>>

\* The persist and attach calls whose response reaches the badge.
CostCalls ==
  { [client |-> << [streamUsage |-> su, collectedUsage |-> cu] >>,
     response |-> << Message(model) >>, req |-> TRUE, persist |-> persist] :
      su \in {[input_tokens |-> Num(1000), output_tokens |-> Num(500)],
              [input_tokens |-> JsNull, output_tokens |-> Num(200)]},
      cu \in CollectedUsages, model \in {"gpt", "o1", "o3", "local", "other"},
      persist \in BOOLEAN }

\* One response from the usage of its stream to the badge.
CostNext ==
  \/ passes = <<>> /\ store = <<>> /\ StartPass(args)
  \/ \E i \in 1..MaxPasses : PassResume(i)
  \/ \E i \in 1..MaxPasses : SaveSettles(i, TRUE)
  \/ \E i \in 1..MaxPasses, payload \in Payloads : FetchResolves(i, payload)
  \/ \E i \in 1..MaxPasses : FetchFinally(i)
  \/ \E msg \in Delivered : ResponseCost(msg)
  \/ \E modelInfoMap \in ModelInfoMaps : ModelInfoResolves(modelInfoMap)
  \/ \E value \in {"USD", "NOK"} : handleCurrencyPreferenceChange(value)
  \/ \E rate \in UsdToNokRates : RateArrives(rate)
  \/ \E margin \in CostMargins : MarginArrives(margin)

CostSpecInit == ServerInit /\ LITELLM_API_KEY = TRUE /\ args \in CostCalls

SpecCost == CostSpecInit /\ [][CostNext]_vars

(***************************************************************************)
(* currencyAdapter: the cached USD/NOK rate                                *)
(* (client/src/forked-code-custom/KeyboardShortcuts.tsx:416-474)           *)
(***************************************************************************)
FAILURE_BACKOFF_MS == 60000

\* setTimeout(() => controller.abort(), 5000)
RateAbortTimeout == 5000

\* Steps of the clock: while a request is in flight, between calls during
\* the failure backoff, and between calls otherwise.
RateFetchTick == RateAbortTimeout \div 2

RateTick == FAILURE_BACKOFF_MS \div 2

MaxRateRequests == 3

MaxRateTicks == 3

\* Date.now() when the module is loaded: far more than one cache lifetime
\* after the epoch.
RateStart == CACHE_DURATION_MS

\* const cooldown = lastFetchFailed ? FAILURE_BACKOFF_MS : CACHE_DURATION_MS
cooldownAlwaysCache == CACHE_DURATION_MS

cooldown == IF lastFetchFailed THEN FAILURE_BACKOFF_MS ELSE CACHE_DURATION_MS

\* What the endpoint answers: response.ok and the parsed body.
RateResponses ==
  { [ok |-> TRUE, data |-> [rates |-> [NOK |-> Num(10)]]],
    [ok |-> TRUE, data |-> [rates |-> [NOK |-> Num(11)]]],
    [ok |-> TRUE, data |-> [rates |-> [NOK |-> Str(<<"1", "0">>)]]],
    [ok |-> TRUE, data |-> [rates |-> [NOK |-> Num(0)]]],
    [ok |-> TRUE, data |-> [rates |-> [NOK |-> Str(<<"a", "b", "c">>)]]],
    [ok |-> TRUE, data |-> [rates |-> [SEK |-> Num(10)]]],
    [ok |-> TRUE, data |-> [message |-> "not found"]],
    [ok |-> FALSE, data |-> [message |-> "error"]] }

\* A call of fetchUsdToNokRate up to its first await.
fetchUsdToNokRate ==
  /\ IF now - lastFetchTime < cooldown
       THEN /\ rateLog' = [rateLog EXCEPT
                             !.call = <<[at |-> now, issued |-> FALSE,
                                         first |-> ~rateLog.issuedSince,
                                         result |-> usdToNokRateCache]>>]
            /\ UNCHANGED usdToNokRatePromise
       ELSE IF usdToNokRatePromise # <<>>
         THEN /\ rateLog' = [rateLog EXCEPT
                               !.call = <<[at |-> now, issued |-> FALSE,
                                           first |-> ~rateLog.issuedSince,
                                           result |-> <<>>]>>]
              /\ UNCHANGED usdToNokRatePromise
         ELSE /\ rateLog.requests < MaxRateRequests
              /\ usdToNokRatePromise' = <<[age |-> 0]>>
              /\ rateLog' = [rateLog EXCEPT
                               !.call = <<[at |-> now, issued |-> TRUE,
                                           first |-> ~rateLog.issuedSince,
                                           result |-> <<>>]>>,
                               !.issuedSince = TRUE,
                               !.requests = @ + 1]
  /\ UNCHANGED <<env, rq, guardVars, usageVars, costVars, usdToNokRateCache, lastFetchTime,
                 lastFetchFailed>>

\* The catch block and the finally block of the request.
RateFetchFailed ==
  /\ lastFetchTime' = now
  /\ lastFetchFailed' = TRUE
  /\ usdToNokRatePromise' = <<>>
  /\ rateLog' = [rateLog EXCEPT !.call = <<>>, !.issuedSince = FALSE,
                                !.settled = <<[at |-> now, ok |-> FALSE]>>]
  /\ UNCHANGED <<env, rq, guardVars, usageVars, costVars, usdToNokRateCache>>

\* The endpoint answers before the abort timer fires.
RateResponse(response) ==
  /\ usdToNokRatePromise # <<>>
  /\ usdToNokRatePromise[1].age < RateAbortTimeout
  /\ LET rate == NumberOf(Get(response.data, <<"rates", "NOK">>))
     IN IF response.ok /\ rate.t = "number" /\ rate.v > 0
          THEN /\ usdToNokRateCache' = <<rate.v>>
               /\ lastFetchTime' = now
               /\ lastFetchFailed' = FALSE
               /\ usdToNokRatePromise' = <<>>
               /\ rateLog' = [rateLog EXCEPT !.call = <<>>, !.issuedSince = FALSE,
                                             !.settled = <<[at |-> now, ok |-> TRUE]>>]
               /\ UNCHANGED <<env, rq, guardVars, usageVars, costVars>>
          ELSE RateFetchFailed

\* fetch rejects: the network fails.
RateNetworkError ==
  /\ usdToNokRatePromise # <<>>
  /\ usdToNokRatePromise[1].age < RateAbortTimeout
  /\ RateFetchFailed

\* The abort timer fires and fetch rejects.
RateAborted ==
  /\ usdToNokRatePromise # <<>>
  /\ usdToNokRatePromise[1].age >= RateAbortTimeout
  /\ RateFetchFailed

\* Time passes.
RateClock ==
  /\ IF usdToNokRatePromise # <<>>
       THEN /\ usdToNokRatePromise[1].age < RateAbortTimeout
            /\ now' = now + RateFetchTick
            /\ usdToNokRatePromise' = <<[usdToNokRatePromise[1] EXCEPT !.age = @ + RateFetchTick]>>
       ELSE /\ now < RateStart + MaxRateTicks * CacheTick
            /\ \/ lastFetchFailed /\ now - lastFetchTime < 2 * FAILURE_BACKOFF_MS
                  /\ now' = now + RateTick
               \/ now' = now + CacheTick
            /\ UNCHANGED usdToNokRatePromise
  /\ rateLog' = [rateLog EXCEPT !.call = <<>>]
  /\ UNCHANGED <<env, rq, guardVars, costVars, usdToNokRateCache, lastFetchTime, lastFetchFailed,
                 LITELLM_API_KEY, args, cache, cacheTimestamp, inflightPromise, fetches,
                 passes, store, returned, fetchedAt>>

RateNext ==
  \/ fetchUsdToNokRate
  \/ \E response \in RateResponses : RateResponse(response)
  \/ RateNetworkError
  \/ RateAborted
  \/ RateClock

\* The page is loaded; nothing else runs.
RateSpecInit ==
  /\ env = CHOOSE e \in Envs : TRUE
  /\ rq = IdleRun
  /\ GuardInit
  /\ pathname = CHOOSE p \in Paths : TRUE
  /\ LITELLM_API_KEY = TRUE
  /\ args = <<>>
  /\ now = RateStart
  /\ cache = <<>>
  /\ cacheTimestamp = 0
  /\ inflightPromise = <<>>
  /\ fetches = <<>>
  /\ passes = <<>>
  /\ store = <<>>
  /\ returned = <<>>
  /\ fetchedAt = -1
  /\ CostInit

SpecRate == RateSpecInit /\ [][RateNext]_vars

(***************************************************************************)
(* Properties                                                              *)
(***************************************************************************)
Terminal == {"access-granted", "subscription-required", "error"}

SettledCheck == settled'[1]

\* C1: once the cleanup of the identity effect has aborted a check's signal,
\* that check changes none of checkStatus, denialReason, checkoutUrl and
\* isRechecking when its fetch settles, with data or with a rejection.
C1_AbortedCheckUpdatesNothing ==
  [][(settled' # <<>> /\ SettledCheck.aborted)
       => UNCHANGED <<checkStatus, denialReason, checkoutUrl, isRechecking>>]_vars

\* C2: a check that was in flight when a newer check was issued never changes
\* checkStatus when it settles. Stated for the superseded checks no abort
\* signal has reached (the aborted ones are C1's subject): a manual recheck
\* overtaken by the check of a user switch is one.
C2_SupersededCheckDiscarded ==
  [][(settled' # <<>> /\ ~SettledCheck.latest /\ ~SettledCheck.aborted)
       => UNCHANGED checkStatus]_vars

CountIdentity(cs) == Cardinality({i \in 1..Len(cs) : cs[i].kind = "identity"})

\* C3: a step in which a user id becomes the identity of the authenticated
\* session (login, user switch, login of the same user after a logout) issues
\* exactly one identity check, for that user; every other step issues none.
C3_OneCheckPerIdentityChange ==
  [][LET issued == CountIdentity(checks') - CountIdentity(checks)
     IN IF isAuthenticated' /\ userId' # Null /\ userId' # identity
          THEN /\ issued = 1
               /\ checks'[Len(checks')] =
                    [kind |-> "identity", user |-> userId', aborted |-> FALSE,
                     age |-> 0, latest |-> TRUE]
          ELSE issued <= 0]_vars

\* C3 witness: a user logged in again (or was switched back to) after the
\* check of the earlier session for the same user had been aborted.
C3_Witness ==
  \E i, j \in 1..Len(checks) :
    /\ j < i
    /\ checks[j].kind = "identity" /\ checks[j].aborted
    /\ checks[i].kind = "identity" /\ ~checks[i].aborted
    /\ checks[i].user = checks[j].user
    /\ ~isRechecking

\* C4: a failed customer lookup or subscription query (network error,
\* timeout, non-2xx) ends the run with hasSubscription:false, error:true,
\* fallback:false.
C4_ProviderFailureDenies ==
  Failure(rq) # "none" =>
    /\ rq.pc = "done"
    /\ LET body == rq.resp[1].body
       IN /\ Has(body, "hasSubscription") /\ body.hasSubscription = FALSE
          /\ Has(body, "error") /\ body.error = TRUE
          /\ Has(body, "fallback") /\ body.fallback = FALSE

\* C4 witness: the subscription query timed out after the lookup succeeded.
C4_Witness ==
  /\ rq.pc = "done"
  /\ Len(rq.calls) = 2
  /\ rq.calls[2] = "GET /subscriptions"
  /\ Failure(rq) = "timeout"

\* The users the claim's rule puts on a list: the email of u1, "A@x", equals
\* the entry " a@X " once trimmed and compared without case, and equals the
\* entry "A@x"; the id of u3, "3", equals the entries " 3" and "3"; u3 has no
\* email.
C5_Listed(u, e) ==
  \/ /\ u = "u1"
     /\ e.LAGO_WHITELISTED_EMAILS \in
          { <<" ", "a", "@", "X", " ", ",", "c", "@", "x">>, <<"A", "@", "x">> }
  \/ /\ u = "u3"
     /\ e.LAGO_WHITELISTED_USERS \in { <<"9", ",", " ", "3">>, <<"3">> }

C5_WhitelistedAnswer ==
  /\ rq.pc = "done"
  /\ rq.resp[1].status = 200
  /\ Truthy(rq.resp[1].body, "hasSubscription")
  /\ Truthy(rq.resp[1].body, "whitelisted")
  /\ rq.calls = <<>>

\* C5 as stated: a request of a user on the email list or on the user-id list
\* is answered hasSubscription:true, whitelisted:true without any request to
\* the billing provider.
C5_AsStated == (rq.pc # "idle" /\ C5_Listed(rq.user, env)) => C5_WhitelistedAnswer

\* C5 amended: the same, when LAGO_API_KEY is configured.
C5_WhitelistBypass ==
  (rq.pc # "idle" /\ env.LAGO_API_KEY /\ C5_Listed(rq.user, env)) => C5_WhitelistedAnswer

\* C5 witness: u3, who has no email, is granted through the user-id list.
C5_Witness ==
  /\ rq.pc = "done"
  /\ rq.user = "u3"
  /\ Profile(rq.user).email = <<>>
  /\ env.LAGO_API_KEY
  /\ C5_Listed(rq.user, env)
  /\ rq.resp[1] = WhitelistedResponse

\* The customers of a lookup answer that carry the user's email.
C6_Matches(u, data) ==
  IF Has(data, "customers")
    THEN {i \in 1..Len(data.customers) :
            /\ Has(data.customers[i], "email")
            /\ ToLowerCase(data.customers[i].email) = ToLowerCase(Profile(u).email)}
    ELSE {}

C6_NoAccount(r) ==
  \/ Profile(r.user).email = <<>>
  \/ Len(r.replies) >= 1 /\ C6_Matches(r.user, r.replies[1].data) = {}

C6_PaymentMethod(r) ==
  LET data == r.replies[1].data
      c == data.customers[CHOOSE i \in C6_Matches(r.user, data) :
                            \A j \in C6_Matches(r.user, data) : i <= j]
  IN /\ Has(c, "billing_configuration")
     /\ Present(c.billing_configuration, "payment_provider")
     /\ Present(c.billing_configuration, "provider_customer_id")

C6_ActiveSubscription(r) ==
  /\ Len(r.replies) >= 2
  /\ r.calls[2] = "GET /subscriptions"
  /\ Has(r.replies[2].data, "subscriptions")
  /\ r.replies[2].data.subscriptions # <<>>

\* C6: for a user on no list the steps run in the order customer lookup,
\* payment method, subscription query and stop at the first that fails; the
\* reason names that step, hasSubscription:true needs all three to pass, and
\* the subscription query is issued only after the first two passed. The
\* reasons are read off the runs in which no provider request failed.
C6_StepsInOrder ==
  /\ \A i \in 1..Len(rq.calls) :
       /\ rq.calls[i] = "GET /customers" <=> i = 1
       /\ rq.calls[i] = "GET /subscriptions" =>
            /\ i = 2
            /\ rq.replies[1].kind = "ok"
            /\ ~C6_NoAccount(rq)
            /\ C6_PaymentMethod(rq)
  /\ (rq.pc = "done" /\ env.LAGO_API_KEY /\ ~C5_Listed(rq.user, env)
        /\ Failure(rq) = "none") =>
       LET body == rq.resp[1].body
           reason == IF Has(body, "reason") THEN body.reason ELSE Null
       IN /\ reason = "no_account" <=> C6_NoAccount(rq)
          /\ reason = "no_payment_method" <=>
               ~C6_NoAccount(rq) /\ ~C6_PaymentMethod(rq)
          /\ reason = "no_active_subscription" <=>
               /\ ~C6_NoAccount(rq) /\ C6_PaymentMethod(rq)
               /\ ~C6_ActiveSubscription(rq)
          /\ body.hasSubscription <=>
               /\ ~C6_NoAccount(rq) /\ C6_PaymentMethod(rq)
               /\ C6_ActiveSubscription(rq)

\* C6 witness: the lookup found the customer with a payment method and the
\* subscription query found nothing active.
C6_Witness ==
  /\ rq.pc = "done"
  /\ rq.calls = <<"GET /customers", "GET /subscriptions", "POST /checkout_url">>
  /\ Failure(rq) = "none"
  /\ rq.resp[1].body.reason = "no_active_subscription"

C7_Protected == isAuthenticated /\ userId # Null /\ ~isPublicPath(pathname)

\* C7: for an authenticated user on a non-public path the content is shown
\* exactly while checkStatus is pending or access-granted and the denial page
\* exactly while it is subscription-required or error.
C7_OptimisticRender ==
  C7_Protected =>
    /\ view = "children" <=> checkStatus \in {"pending", "access-granted"}
    /\ view \in DenialPage <=> checkStatus \in {"subscription-required", "error"}

\* C7 witness: protected content is on screen while the check is in flight.
C7_Witness ==
  /\ C7_Protected
  /\ checkStatus = "pending"
  /\ \E i \in 1..Len(checks) : ~checks[i].aborted
  /\ view = "children"

\* The public paths as the claim lists them.
C8_PublicPaths ==
  { <<"/", "l", "o", "g", "i", "n">>,
    <<"/", "r", "e", "g", "i", "s", "t", "e", "r">>,
    <<"/", "l", "o", "g", "i", "n", "/", "2", "f", "a">>,
    <<"/", "f", "o", "r", "g", "o", "t", "-", "p", "a", "s", "s", "w", "o", "r", "d">>,
    <<"/", "r", "e", "s", "e", "t", "-", "p", "a", "s", "s", "w", "o", "r", "d">>,
    <<"/", "v", "e", "r", "i", "f", "y">> }

C8_PassThrough ==
  (~isAuthenticated \/ \E pp \in C8_PublicPaths : StartsWith(pathname, pp))
    => view = "children"

\* C8: an unauthenticated user, and any path that starts with a public path,
\* gets the content whatever checkStatus is; a step that leaves the user
\* unauthenticated issues no check.
C8_PublicAndUnauthenticated ==
  /\ []C8_PassThrough
  /\ [][~isAuthenticated' => Len(checks') <= Len(checks)]_vars

\* C8 witness: a denied user on a path that only starts with a public path.
C8_Witness ==
  /\ isAuthenticated /\ userId # Null
  /\ checkStatus \in {"subscription-required", "error"}
  /\ pathname \notin C8_PublicPaths
  /\ \E pp \in C8_PublicPaths : StartsWith(pathname, pp)
  /\ view = "children"

RecheckStarts ==
  /\ Len(checks') = Len(checks) + 1
  /\ checks'[Len(checks')].kind = "recheck"

\* C10 as stated: starting a recheck moves checkStatus to pending.
C10_AsStated == [][RecheckStarts => checkStatus' = "pending"]_vars

\* C10 amended: starting a recheck leaves checkStatus at its terminal value
\* (subscription-required or error) and sets isRechecking; when the recheck
\* settles, checkStatus is set to a terminal value.
C10_RecheckKeepsStatus ==
  [][/\ RecheckStarts =>
          /\ checkStatus \in {"subscription-required", "error"}
          /\ checkStatus' = checkStatus
          /\ isRechecking'
     /\ (settled' # <<>> /\ SettledCheck.kind = "recheck") =>
          checkStatus' \in Terminal]_vars

\* C10 witness: a recheck is in flight and the denial page still stands.
C10_Witness ==
  /\ \E i \in 1..Len(checks) : checks[i].kind = "recheck" /\ checks[i].latest
  /\ isRechecking
  /\ checkStatus \in {"subscription-required", "error"}
  /\ view \in DenialPage

\* The cache holds no entry that is still fresh.
Stale == cache = <<>> \/ now - cacheTimestamp >= CACHE_DURATION_MS

\* A step in which getLiteLLMModelInfoMap is called.
LookupCalled ==
  /\ Len(passes') = Len(passes) + 1
  /\ passes'[Len(passes')].pc \in {"map", "resume"}
  /\ passes'[Len(passes')].model # ""

Upstream(fs) == {i \in 1..Len(fs) : fs[i].pc = "request"}

\* The calls made while a fetch runs issue no request and wait for that
\* fetch; when it finishes every waiting caller gets its result.
C11_Deduplicated ==
  /\ (LookupCalled /\ Stale /\ fetches # <<>>) =>
       /\ fetches' = fetches
       /\ passes'[Len(passes')].awaits = fetches[1].id
  /\ Len(fetches') < Len(fetches) =>
       \A j \in 1..Len(passes) :
         passes[j].pc = "map" =>
           /\ passes[j].awaits = fetches[1].id
           /\ passes'[j].pc = "resume"
           /\ passes'[j].map = fetches[1].result
  /\ (Len(fetches) = 1 /\ fetches[1].pc # "finally" /\ Len(fetches') = 1
        /\ fetches'[1].pc = "finally") =>
       fetches'[1].result = IF cache' # <<>> THEN cache' ELSE <<EmptyMap>>

C12_FreshForOneHour ==
  [][(LookupCalled /\ fetchedAt >= 0) =>
       IF now < fetchedAt + 60 * 60 * 1000
         THEN /\ passes'[Len(passes')].pc = "resume"
              /\ passes'[Len(passes')].map = cache
              /\ cache # <<>>
              /\ fetches' = fetches
         ELSE fetches = <<>> =>
                /\ Upstream(fetches') = {1}
                /\ passes'[Len(passes')].pc = "map"
                /\ passes'[Len(passes')].awaits = fetches'[1].id]_vars

\* C12 witness: the entry was fetched after time 0, it expired exactly one
\* hour later, and the call made at that instant waits for a new request.
C12_Witness ==
  /\ fetchedAt > 0
  /\ now = fetchedAt + 60 * 60 * 1000
  /\ cache # <<>>
  /\ Upstream(fetches) = {1}
  /\ \E j \in 1..Len(passes) : passes[j].pc = "map" /\ passes[j].awaits = fetches[1].id

\* The snapshots a persist pass has written: into the message store, and
\* into the metadata of the response it is about to save.
Snapshots ==
  {store[i].metadata.forked_litellm_usage : i \in 1..Len(store)}
    \cup {passes[i].response.metadata.forked_litellm_usage :
            i \in {j \in 1..Len(passes) : passes[j].pc = "save"}}

NumericRates(snap) ==
  /\ Has(snap, "rates")
  /\ \A f \in DOMAIN snap.rates : snap.rates[f] # <<>> /\ snap.rates[f][1] >= 0

\* C13: in a snapshot whose three rates are non-negative numbers, input cost
\* = input_tokens x input rate, output cost = max(0, output_tokens -
\* reasoning_tokens) x output rate, reasoning cost = reasoning_tokens x
\* reasoning rate, and total = input + output + reasoning.
C13_CostFormula ==
  \A snap \in Snapshots :
    NumericRates(snap) =>
      /\ Has(snap, "costs")
      /\ snap.costs.input = snap.input_tokens * snap.rates.input_cost_per_token[1]
      /\ snap.costs.output =
           (IF snap.output_tokens - snap.reasoning_tokens > 0
              THEN snap.output_tokens - snap.reasoning_tokens ELSE 0)
             * snap.rates.output_cost_per_token[1]
      /\ snap.costs.reasoning =
           snap.reasoning_tokens * snap.rates.output_cost_per_reasoning_token[1]
      /\ snap.costs.total = snap.costs.input + snap.costs.output + snap.costs.reasoning

\* C13 witness: the example of the claim, in units of 1e-9 USD (1000 input and
\* 500 output tokens at 5e-6 and 15e-6 USD give 0.005, 0.0075 and 0.0125
\* USD), as stored by the persist pass.
C13_Witness ==
     /\ store # <<>>
     /\ LET snap == store[1].metadata.forked_litellm_usage
        IN /\ NumericRates(snap)
           /\ snap.input_tokens = 1000 /\ snap.output_tokens = 500
           /\ snap.reasoning_tokens = 0
           /\ snap.rates.input_cost_per_token = <<5000>>
           /\ snap.rates.output_cost_per_token = <<15000>>
           /\ snap.costs = [input |-> 5000000, output |-> 7500000, reasoning |-> 0,
                            total |-> 12500000]

\* The reasoning tokens the collected usage records of the call report.
ReportedReasoning ==
  IF args.client # <<>> /\ Has(args.client[1], "collectedUsage")
    THEN SumReasoning(args.client[1].collectedUsage) ELSE 0

\* breakdown.reasoningTokens ?? 0 of the client breakdown.
ClientReasoning == IF costBreakdown[1].reasoningTokens = <<>> THEN 0
                   ELSE costBreakdown[1].reasoningTokens[1]

\* C14: for every usage input, also when the reported reasoning tokens
\* exceed the output tokens, the breakdown of the server (buildUsageBreakdown)
\* and the breakdown of the client (buildBreakdownFromRates) have
\* reasoning tokens <= output tokens and effective output tokens =
\* output tokens - reasoning tokens >= 0.
C14_EffectiveOutputNeverNegative ==
  /\ \A i \in 1..Len(passes) :
       LET b == passes[i].breakdown
       IN /\ b.reasoningTokens <= b.outputTokens
          /\ b.effectiveOutputTokens = b.outputTokens - b.reasoningTokens
          /\ b.effectiveOutputTokens >= 0
  /\ costBreakdown # <<>> =>
       /\ ClientReasoning <= costBreakdown[1].outputTokens
       /\ costBreakdown[1].effectiveOutputTokens
            = costBreakdown[1].outputTokens - ClientReasoning
       /\ costBreakdown[1].effectiveOutputTokens >= 0

\* C14 witness: a persist pass whose collected usage reports more reasoning
\* tokens than the stream reports output tokens, and a client breakdown of a
\* snapshot with 700 reasoning tokens on 500 output tokens; both are capped.
C14_Witness ==
  /\ passes # <<>>
  /\ ReportedReasoning > passes[1].breakdown.outputTokens
  /\ passes[1].breakdown.outputTokens > 0
  /\ passes[1].breakdown.reasoningTokens = passes[1].breakdown.outputTokens
  /\ passes[1].breakdown.effectiveOutputTokens = 0
  /\ costBreakdown # <<>>
  /\ SnapshotOf(message[1])[1].reasoning_tokens > SnapshotOf(message[1])[1].output_tokens
  /\ costBreakdown[1].reasoningTokens = <<costBreakdown[1].outputTokens>>
  /\ costBreakdown[1].effectiveOutputTokens = 0

\* The step in which the write of the only running persist pass succeeds.
Persists ==
  /\ Len(passes) = 1
  /\ passes[1].pc = "save"
  /\ passes' = <<>>
  /\ store' # <<>>

\* The pricing entry the persist pass found for its model, <<>> when the
\* model name is missing or the map does not hold it.
EntryOf(pass) ==
  IF pass.model # "" /\ pass.map # <<>> /\ pass.model \in DOMAIN pass.map[1]
    THEN <<pass.map[1][pass.model]>> ELSE <<>>

\* C15: whenever the model's rate entry carries no reasoning rate (the field
\* is absent or null), the persist pass costs the reasoning tokens at the
\* output rate: costs.reasoning = reasoning_tokens x output rate.
C15_ReasoningAtOutputRate ==
  [][(/\ Persists
      /\ EntryOf(passes[1]) # <<>>
      /\ Nullish(Field(EntryOf(passes[1])[1], "output_cost_per_reasoning_token"))
      /\ Has(store'[1].metadata.forked_litellm_usage, "costs"))
       => LET snap == store'[1].metadata.forked_litellm_usage
          IN snap.costs.reasoning
               = snap.reasoning_tokens
                   * toNonNegativeNumber(RateValue(snap.rates.output_cost_per_token))]_vars

\* A cost field of a pricing entry that holds a number.
NumericCost(entry, f) ==
  /\ Has(entry, f)
  /\ \/ entry[f].t = "number"
     \/ entry[f].t = "string" /\ Trim(entry[f].v) # <<>> /\ NumberOf(<<entry[f]>>).t = "number"

\* The rate lookup of the pass yields no rate.
NoRate(pass) ==
  \/ EntryOf(pass) = <<>>
  \/ \A f \in {"input_cost_per_token", "output_cost_per_token",
               "output_cost_per_reasoning_token"} : ~NumericCost(EntryOf(pass)[1], f)

\* C16: if the rate lookup of a persist pass yields no rate for the model
\* of the response (model not in the map, empty map, missing model name, or
\* an entry without numeric cost fields), the persisted snapshot holds the
\* token counts and neither rates nor costs.
C16_UnknownPriceOmitted ==
  [][(Persists /\ NoRate(passes[1]))
       => LET snap == store'[1].metadata.forked_litellm_usage
          IN /\ snap.input_tokens = passes[1].breakdown.inputTokens
             /\ snap.output_tokens = passes[1].breakdown.outputTokens
             /\ snap.reasoning_tokens = passes[1].breakdown.reasoningTokens
             /\ ~Has(snap, "rates")
             /\ ~Has(snap, "costs")]_vars

\* C17: syncResponseUsage never rejects; when the write of a persist pass
\* settles, with success or with a failure, and whatever the pricing fetch
\* did, the call resolves with the response object.
C17_NeverRejects ==
  /\ [](returned # <<>> => returned[1].settle = "resolve")
  /\ [][(Len(passes) = 1 /\ passes[1].pc = "save" /\ passes' = <<>>)
          => returned' = Return(<<passes[1].response>>, "resolve")]_vars

\* C17 witness: a persist pass has resolved with the response and its
\* snapshot although the pricing request failed (a key is set, a model is
\* named, the cache holds nothing) and the write failed (nothing is stored).
C17_Witness ==
  /\ returned # <<>>
  /\ returned[1].settle = "resolve"
  /\ returned[1].response # <<>>
  /\ SnapshotOf(returned[1].response[1]) # <<>>
  /\ ModelOf(returned[1].response[1]) # ""
  /\ LITELLM_API_KEY
  /\ cache = <<>>
  /\ store = <<>>

\* The step in which syncResponseUsage returns before its first await.
ReturnsAtOnce == passes = <<>> /\ passes' = <<>> /\ returned' # <<>>

\* The token counts of the call's usage; 0 when the client reports none.
UsageOf(call) ==
  IF call.client = <<>> \/ ~Has(call.client[1], "streamUsage")
    THEN [inputTokens |-> 0, outputTokens |-> 0]
    ELSE buildUsageBreakdown(call.client[1].streamUsage,
                             IF Has(call.client[1], "collectedUsage")
                               THEN call.client[1].collectedUsage ELSE <<>>)

\* C18: a call of syncResponseUsage with persist = false or without a
\* request object performs no rate lookup and no write, leaves
\* response.metadata and every other field unchanged, and sets promptTokens
\* and tokenCount only, each only when its token count is greater than 0.
C18_AttachPassMemoryOnly ==
  [][(passes = <<>> /\ returned' # returned /\ (~args.persist \/ ~args.req))
       => /\ ReturnsAtOnce
          /\ UNCHANGED <<cache, cacheTimestamp, inflightPromise, fetches, store>>
          /\ IF args.response = <<>> THEN returned'[1].response = <<>>
             ELSE LET before == args.response[1]
                      after == returned'[1].response[1]
                      others == {"promptTokens", "tokenCount"}
                  IN /\ DOMAIN after \ others = DOMAIN before \ others
                     /\ \A f \in DOMAIN before \ others : after[f] = before[f]
                     /\ Field(after, "promptTokens") # Field(before, "promptTokens")
                          => /\ UsageOf(args).inputTokens > 0
                             /\ after.promptTokens = UsageOf(args).inputTokens
                     /\ Field(after, "tokenCount") # Field(before, "tokenCount")
                          => /\ UsageOf(args).outputTokens > 0
                             /\ after.tokenCount = UsageOf(args).outputTokens]_vars

\* C18 witness: an attach pass has returned the response with the prompt
\* tokens of the stream (1000 for the estimate of 900) and its metadata as
\* it was, and nothing was looked up or stored.
C18_Witness ==
  /\ ~args.persist
  /\ args.req
  /\ returned # <<>>
  /\ returned[1].response # <<>>
  /\ Has(args.response[1], "metadata")
  /\ returned[1].response[1].metadata = args.response[1].metadata
  /\ returned[1].response[1].promptTokens = 1000
  /\ ~Has(args.response[1], "promptTokens")
  /\ fetches = <<>>
  /\ cache = <<>>
  /\ store = <<>>

\* The step in which the pricing map arrives at the mounted calculateCost run.
CostCalculated == calc # <<>> /\ calc' = <<>> /\ message' = message

\* The snapshot carries rates or a numeric costs.total.
Carries(snapshot) ==
  /\ snapshot # <<>>
  /\ \/ Has(snapshot[1], "rates")
     \/ Has(snapshot[1], "costs") /\ Has(snapshot[1].costs, "total")

\* snapshot.f, 0 when the field is missing.
Stored(snapshot, f) == IF Has(snapshot, f) THEN snapshot[f] ELSE 0

\* C19: when the snapshot of the message carries rates or a numeric
\* costs.total, ResponseCost sets a breakdown built from the snapshot (its
\* token counts, its rates or its costs) with lockedRates = true; otherwise a
\* breakdown it sets is a live estimate, with lockedRates = false, from the
\* rates a pricing map holds for the message's model; and a badge is rendered
\* only for a breakdown with a positive total cost.
C19_SnapshotBeforeLiveEstimate ==
  /\ [](Badge # <<>> => costBreakdown # <<>> /\ costBreakdown[1].totalCost > 0)
  /\ [][CostCalculated =>
          LET msg == calc[1].message
              snapshot == SnapshotOf(msg)
          IN IF Carries(snapshot)
               THEN /\ costBreakdown' # <<>>
                    /\ costBreakdown'[1].lockedRates
                    /\ costBreakdown'[1].inputTokens = Stored(snapshot[1], "input_tokens")
                    /\ costBreakdown'[1].outputTokens = Stored(snapshot[1], "output_tokens")
                    /\ IF Has(snapshot[1], "rates")
                         THEN /\ costBreakdown'[1].inputRatePerMillion
                                   = toNonNegativeNumber(
                                       RateValue(snapshot[1].rates.input_cost_per_token))
                              /\ costBreakdown'[1].outputRatePerMillion
                                   = toNonNegativeNumber(
                                       RateValue(snapshot[1].rates.output_cost_per_token))
                         ELSE costBreakdown'[1].totalCost = snapshot[1].costs.total
               ELSE costBreakdown' # <<>> =>
                      /\ ~costBreakdown'[1].lockedRates
                      /\ costBreakdown'[1].totalCost > 0
                      /\ costBreakdown'[1].model = getMessageModel(msg)
                      /\ \E modelInfoMap \in ModelInfoMaps :
                           /\ getMessageModel(msg) \in DOMAIN modelInfoMap
                           /\ costBreakdown'[1].inputRatePerMillion
                                = toNonNegativeNumber(
                                    Coalesce(Field(modelInfoMap[getMessageModel(msg)],
                                                   "input_cost_per_token"), <<Num(0)>>))
                           /\ costBreakdown'[1].outputRatePerMillion
                                = toNonNegativeNumber(
                                    Coalesce(Field(modelInfoMap[getMessageModel(msg)],
                                                   "output_cost_per_token"), <<Num(0)>>))]_vars

\* C19 witness: the badge shows the stored document of the response, whose
\* snapshot the persist pass wrote with rates, as a locked breakdown.
C19_Witness ==
  /\ store # <<>>
  /\ message = <<StoredDocument>>
  /\ Has(SnapshotOf(message[1])[1], "rates")
  /\ costBreakdown # <<>>
  /\ costBreakdown[1].lockedRates
  /\ calculationComplete
  /\ Badge # <<>>

\* A valid positive exchange rate is available.
RateAvailable == usdToNokRate # <<>> /\ usdToNokRate[1] > 0

\* The shown amount is the amount value of currency from, under the label
\* of the currency it is expressed in: unchanged under the label of from, or
\* converted with the exchange rate under the label of the other currency.
Labelled(shown, value, from) ==
  IF shown.currency = from THEN shown.value = value
  ELSE /\ RateAvailable
       /\ IF from = "USD" THEN shown.currency = "NOK" /\ shown.value = value * usdToNokRate[1]
          ELSE shown.currency = "USD" /\ shown.value * usdToNokRate[1] = value

\* The costs and rates of the dialog, with the breakdown value each shows.
DialogAmounts ==
  LET b == costBreakdown[1]
      shown == Badge[1]
  IN { <<shown.inputRate, b.inputRatePerMillion>>,
       <<shown.outputRate, b.outputRatePerMillion>>,
       <<shown.inputCost, TimesMargin(b.inputCost)>>,
       <<shown.outputCost, TimesMargin(b.outputCost)>>,
       <<shown.reasoningCost, TimesMargin(b.reasoningCost)>>,
       <<shown.total, TimesMargin(b.totalCost)>> }

\* The cost of the comparison model in USD, as claudeCost computes it.
ComparisonCost ==
  costBreakdown[1].inputTokens * NumberOf(<<claudeRates[1].inputPerToken>>).v
    + costBreakdown[1].outputTokens * NumberOf(<<claudeRates[1].outputPerToken>>).v

\* C20: when the display preference is NOK and no valid positive exchange
\* rate is available, every amount of the badge is shown in USD, unconverted,
\* together with the rate-unavailable notice; and in every state each shown
\* amount carries the label of the currency its value is expressed in.
C20_FallsBackToUsd ==
  Badge # <<>> =>
    /\ Labelled(Badge[1].compactCostDisplay, TimesMargin(costBreakdown[1].totalCost),
                costBreakdown[1].currency)
    /\ \A a \in DialogAmounts : Labelled(a[1], a[2], costBreakdown[1].currency)
    /\ Badge[1].claude # <<>> =>
         Labelled([value |-> Badge[1].claude[1].value.v,
                   currency |-> Badge[1].claude[1].currency], ComparisonCost, "USD")
    /\ (displayCurrencyPreference = "NOK" /\ ~RateAvailable) =>
         /\ Badge[1].fallbackCurrencyNotice
         /\ Badge[1].compactCostDisplay.currency = "USD"
         /\ \A a \in DialogAmounts : a[1] = Shown(a[2], "USD")
         /\ Badge[1].claude # <<>> => Badge[1].claude[1] = Shown(Num(ComparisonCost), "USD")

\* C20 witness: the preference is NOK, no exchange rate has arrived, and the
\* badge shows a total with margin and the comparison cost, in USD with the
\* notice.
C20_Witness ==
  /\ Badge # <<>>
  /\ displayCurrencyPreference = "NOK"
  /\ usdToNokRate = <<>>
  /\ costMargin > 0
  /\ Badge[1].fallbackCurrencyNotice
  /\ Badge[1].total = Shown(TimesMargin(costBreakdown[1].totalCost), "USD")
  /\ Badge[1].claude # <<>>

\* C21: in fetchUsdToNokRate, after a request that failed at time t no call
\* before t + 60 s issues a new request and the first call at or after
\* t + 60 s issues one; after a request that succeeded at time t no call
\* before t + 1 hour issues a new request; the retry delay after a failure is
\* strictly shorter than the cache lifetime after a success.
C21_BackoffShorterThanCache ==
  /\ FAILURE_BACKOFF_MS < CACHE_DURATION_MS
  /\ (rateLog.call # <<>> /\ rateLog.settled # <<>>)
       => LET call == rateLog.call[1]
              last == rateLog.settled[1]
          IN /\ (~last.ok /\ call.at < last.at + FAILURE_BACKOFF_MS) => ~call.issued
             /\ (~last.ok /\ call.at >= last.at + FAILURE_BACKOFF_MS /\ call.first)
                  => call.issued
             /\ (last.ok /\ call.at < last.at + CACHE_DURATION_MS) => ~call.issued

\* A call at t + 60 s after a failure issued a request, a call before it did
\* not, and a call within the hour after a success did not.
C21_Witness ==
  /\ rateLog.call # <<>> /\ rateLog.settled # <<>>
  /\ ~rateLog.settled[1].ok
  /\ rateLog.call[1].at = rateLog.settled[1].at + FAILURE_BACKOFF_MS
  /\ rateLog.call[1].issued

\* A stored number is null/absent or a non-negative number.
Sanitized(x) == x = <<>> \/ x[1] >= 0

\* C22: whatever the upstream usage and rate values are (NaN, negative,
\* non-numeric, null, undefined), every numeric field of the snapshot written
\* by the persist pass (input_tokens, output_tokens, reasoning_tokens, each
\* field of rates, each field of costs) is null/absent or a finite
\* non-negative number.
C22_SnapshotSanitized ==
  \A snap \in Snapshots :
    /\ snap.input_tokens >= 0 /\ snap.output_tokens >= 0 /\ snap.reasoning_tokens >= 0
    /\ Has(snap, "rates") => \A f \in DOMAIN snap.rates : Sanitized(snap.rates[f])
    /\ Has(snap, "costs") => \A f \in DOMAIN snap.costs : snap.costs[f] >= 0

\* The loading state of the denial page: isLoading || isLocalLoading.
combinedLoading == isRechecking \/ isLocalLoading

\* A user-triggered recheck is in flight.
RecheckInFlight == \E i \in 1..Len(checks) : checks[i].kind = "recheck"

\* The loading state stays on while the denial page is shown and the
\* MIN_LOADING_TIME ms since the click have not passed.
C23_MinimumHeld == (view \in DenialPage /\ recheckTimer > 0) => combinedLoading

\* The loading state ends only when the minimum time has passed and the
\* recheck has settled, and it is off when both are so.
C23_EndsWhenBoth ==
  /\ [](( /\ view \in DenialPage /\ ~RecheckInFlight
          /\ recheckTimer = -1 /\ effectTimer = -1) => ~combinedLoading)
  /\ [][(view \in DenialPage /\ view' \in DenialPage /\ combinedLoading /\ ~combinedLoading')
          => (recheckTimer' <= 0 /\ ~RecheckInFlight')]_vars

\* C23: after the user triggers a recheck on the denial page, the loading
\* state (spinner shown, recheck button disabled) stays on for at least
\* MIN_LOADING_TIME (1000 ms) even when the check resolves sooner, and it
\* ends once both the minimum time has elapsed and the check has settled.
C23_MinimumLoadingTime == []C23_MinimumHeld /\ C23_EndsWhenBoth

\* The run has asked the provider for a checkout link.
CheckoutRequested(r) == \E i \in 1..Len(r.calls) : r.calls[i] = "POST /checkout_url"

\* The customer the run found for its user.
FoundCustomer(r) == Find(r.replies[1].data.customers, Profile(r.user).email)[1]

\* The answer to the checkout request of a finished run.
CheckoutReply(r) == r.replies[Len(r.replies)]

\* C24: the proxy requests a checkout link only while building a denial for
\* no_payment_method (and then only if a payment provider is configured) or
\* for no_active_subscription, never for a grant, a whitelisted user or
\* no_account; if that request fails, the response keeps the same reason with
\* checkoutUrl null and is not turned into an error response.
C24_CheckoutOnlyForDenials ==
  /\ CheckoutRequested(rq) =>
       /\ rq.reason \in {"no_payment_method", "no_active_subscription"}
       /\ rq.reason = "no_payment_method"
            => Present(billingConfig(FoundCustomer(rq)), "payment_provider")
       /\ rq.pc = "done" =>
            /\ rq.resp[1].status = 200
            /\ rq.resp[1].body.hasSubscription = FALSE
            /\ ~Truthy(rq.resp[1].body, "whitelisted")
            /\ ~Has(rq.resp[1].body, "error")
            /\ rq.resp[1].body.reason = rq.reason
            /\ CheckoutReply(rq).kind # "ok" => rq.resp[1].body.checkoutUrl = Null
  /\ (rq.pc = "done" /\ ~CheckoutRequested(rq)) =>
       \/ Truthy(rq.resp[1].body, "hasSubscription")
       \/ Has(rq.resp[1].body, "error")
       \/ rq.resp[1].body.reason = "no_account"
       \/ /\ rq.resp[1].body.reason = "no_payment_method"
          /\ ~Present(billingConfig(FoundCustomer(rq)), "payment_provider")
          /\ rq.resp[1].body.checkoutUrl = Null

\* A checkout request for a denial has failed and the denial was sent with
\* its reason and no link.
C24_Witness ==
  /\ rq.pc = "done" /\ CheckoutRequested(rq)
  /\ CheckoutReply(rq).kind # "ok"
  /\ rq.resp[1] = DeniedResponse("no_payment_method", Null)

\* The entries of a payload that carry model_info.
Listed(payload) ==
  IF Has(payload, "data")
    THEN {payload.data[i] : i \in {j \in 1..Len(payload.data) : Has(payload.data[j], "model_info")}}
    ELSE {}

\* A lookup of name in the map returns the model_info of the entry.
Returns(map, name, entry) == name \in DOMAIN map /\ map[name] = entry.model_info

\* C25: after a pricing refresh, for every listed entry that has model_info,
\* a lookup by that entry's model_name and a lookup by its
\* litellm_params.model both return that entry's own model_info, for every
\* list of entries, including lists where one entry's underlying model
\* equals another entry's model_name.
C25_BothKeysOwnInfo ==
  [][\A payload \in Payloads :
       (fetchedAt' = now /\ fetchedAt # now /\ cache' = <<toModelInfoMap(payload)>>)
         => \A entry \in Listed(payload) :
              /\ entry.model_name # "" => Returns(cache'[1], entry.model_name, entry)
              /\ entry.litellm_params.model # ""
                   => Returns(cache'[1], entry.litellm_params.model, entry)]_vars

\* C26: whenever the user is authenticated with a user id and checkStatus
\* is pending, a check whose signal has not been aborted is in flight, also
\* after the identity effect was cleaned up and run again for the same user
\* id: protected content is never left rendered on a check that was aborted
\* and not reissued.
C26_PendingHasLiveCheck ==
  (isAuthenticated /\ userId # Null /\ checkStatus = "pending")
    => \E i \in 1..Len(checks) : ~checks[i].aborted

\* C27: for every snapshot written by the server's persist pass that
\* contains rates and costs, the client's buildBreakdownFromSnapshot yields
\* inputCost, outputCost, reasoningCost and totalCost equal to the snapshot's
\* costs.input, costs.output, costs.reasoning and costs.total, for all token
\* counts and all rate values (a reasoning rate of 0 and negative rates
\* included).
C27_ClientCostIsPersistedCost ==
  \A snap \in Snapshots :
    (Has(snap, "rates") /\ Has(snap, "costs")) =>
      LET shown == buildBreakdownFromSnapshot("", snap)
      IN /\ shown # <<>>
         /\ shown[1].inputCost = snap.costs.input
         /\ shown[1].outputCost = snap.costs.output
         /\ shown[1].reasoningCost = snap.costs.reasoning
         /\ shown[1].totalCost = snap.costs.total

\* C28: isRechecking is true exactly while a user-triggered recheck is in
\* flight: set when the recheck starts, cleared when that recheck settles,
\* and cleared by no other check's completion; at most one user-triggered
\* recheck is in flight at any time.
C28_RecheckingExactlyInFlight ==
  /\ isRechecking <=> RecheckInFlight
  /\ Cardinality({i \in 1..Len(checks) : checks[i].kind = "recheck"}) <= 1

\* The upstream request of fetch i fails: it leaves the request without a
\* successful refresh (fetchedAt is the time of the last successful one).
Failed(i) ==
  /\ i \in 1..Len(fetches)
  /\ fetches[i].pc = "request"
  /\ Len(fetches') = Len(fetches)
  /\ fetches'[i].pc = "finally"
  /\ fetchedAt' = fetchedAt

\* The promise of fetch i is settled and its callers go on.
Finished(i) ==
  /\ i \in 1..Len(fetches)
  /\ fetches[i].pc = "finally"
  /\ Len(fetches') < Len(fetches)

\* C29: if the upstream pricing fetch fails, getLiteLLMModelInfoMap resolves
\* (never rejects) with the previously cached map when one exists and with
\* an empty map otherwise; the cache contents and the cache timestamp are
\* left unchanged, and the in-flight marker is cleared after every fetch,
\* successful or failed, so that a later call can start a new fetch.
C29_FailedFetchKeepsCache ==
  /\ [][\A i \in 1..MaxPasses :
          Failed(i) => /\ cache' = cache
                       /\ cacheTimestamp' = cacheTimestamp
                       /\ fetches'[i].result = IF cache # <<>> THEN cache ELSE <<EmptyMap>>]_vars
  /\ [][\A i \in 1..MaxPasses :
          Finished(i) => /\ inflightPromise' = <<>>
                         /\ \A j \in 1..Len(passes) :
                              passes[j].awaits = fetches[i].id
                                => /\ passes'[j].pc = "resume"
                                   /\ passes'[j].map = fetches[i].result]_vars
  /\ [](fetches = <<>> => inflightPromise = <<>>)
  /\ [][(LookupCalled /\ fetches = <<>>
           /\ (cache = <<>> \/ now - cacheTimestamp >= CACHE_DURATION_MS))
          => (Len(fetches') = 1 /\ passes'[Len(passes')].awaits = fetches'[1].id)]_vars

\* A call has resolved with the cached map of a refresh more than one hour
\* old: the fetch it started failed and left the cache and its timestamp.
C29_Witness ==
  /\ fetchedAt >= 0 /\ now >= fetchedAt + CACHE_DURATION_MS
  /\ cache # <<>> /\ cache # <<EmptyMap>> /\ cacheTimestamp = fetchedAt
  /\ fetches = <<>> /\ inflightPromise = <<>>
  /\ \E j \in 1..Len(passes) : passes[j].pc = "resume" /\ passes[j].map = cache

\* The answer of a handler run grants access in the guard.
Granting(r) ==
  \/ Truthy(r.resp[1].body, "hasSubscription")
  \/ Truthy(r.resp[1].body, "whitelisted")
  \/ Truthy(r.resp[1].body, "fallback")

\* The run found its user whitelisted, or found a customer with a configured
\* payment provider and at least one active subscription, with the API key
\* configured and no provider request failed.
Entitled(r, e) ==
  /\ e.LAGO_API_KEY
  /\ \A i \in 1..Len(r.replies) : r.replies[i].kind = "ok"
  /\ \/ IsWhitelisted(r.user, e)
     \/ /\ Profile(r.user).email # <<>>
        /\ Len(r.replies) = 2
        /\ Has(r.replies[1].data, "customers")
        /\ LET found == Find(r.replies[1].data.customers, Profile(r.user).email)
           IN /\ found # <<>>
              /\ Present(billingConfig(found[1]), "payment_provider")
              /\ Present(billingConfig(found[1]), "provider_customer_id")
        /\ Has(r.replies[2].data, "subscriptions")
        /\ Len(r.replies[2].data.subscriptions) > 0

\* The runs of the proxy that can have sent the answer of a settled check.
RunsBehind(check) ==
  {r \in HandlerRuns(check.user, env, LagoTimeout) : r.resp[1] = check.resp}

\* The step sets checkStatus to access-granted.
BecomesGranted == checkStatus' = "access-granted" /\ checkStatus # "access-granted"

\* Access is granted only on an answer of the proxy that no failed run can
\* have sent: the run found the user of its request entitled.
GrantedOnEntitledAnswer ==
  [][BecomesGranted
       => /\ settled' # <<>>
          /\ settled'[1].mode = "response"
          /\ settled'[1].failure = "none"
          /\ RunsBehind(settled'[1]) # {}
          /\ \A r \in RunsBehind(settled'[1]) : Granting(r) /\ Entitled(r, env)]_vars

\* C30: composing the latest billing proxy with RouteGuard, checkStatus
\* becomes access-granted only if the server found the identity the guard
\* shows the content to whitelisted, or found a customer of it with a
\* configured payment provider and at least one active subscription; no
\* provider failure, timeout, missing email or missing API key leads to
\* access-granted.
C30_GrantedOnlyIfEntitled ==
  [][BecomesGranted
       => /\ settled' # <<>>
          /\ settled'[1].mode = "response"
          /\ settled'[1].failure = "none"
          /\ settled'[1].user = userId'
          /\ \A r \in RunsBehind(settled'[1]) : Granting(r) /\ Entitled(r, env)]_vars

====
